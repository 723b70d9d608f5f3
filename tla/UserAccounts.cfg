\* Two concurrent requests on a table of at most two accounts, over both
\* gates.  A password with a colon is among the inputs.
CONSTANTS
    MaxId = 2
    Names <- MCNames
    Passwords <- MCPasswords
    Roles = {"", "user", "admin"}
    Admin <- MCAdmin
    Clients = {p1, p2}
    NoUser = NoUser
    NoCreds = NoCreds
SPECIFICATION Spec
SYMMETRY ClientSymmetry
VIEW AccountsView
INVARIANT TypeOK PasswordNotReverted
