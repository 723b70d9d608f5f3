---------------------------- MODULE MCAuditLogger ----------------------------
(* Model-checking instance of AuditLogger.                                 *)
EXTENDS AuditLogger, TLC

\* audit_filters.json with "stdout_filters": ["response"].  Every RESPONSE
\* event (even id) has "type":"RESPONSE" in its JSON; the REQUEST events
\* are taken to carry no body or path containing the word.
MCFilters == {"response"}
MCMatches(f, e) == e % 2 = 0

=============================================================================
