---------------------------- MODULE MCSiteImport ----------------------------
\* A small instance of SiteImport: two imports, of backups that hold files, a database or both,
\* with a restart or a fault.
EXTENDS SiteImport
UploadsWhole == {[kind |-> "wpress", extra |-> FALSE], [kind |-> "zip_wp", extra |-> FALSE],
                 [kind |-> "sql", extra |-> TRUE]}
BudgetsWhole == {[crashes |-> 1, faults |-> 0], [crashes |-> 0, faults |-> 1]}
=============================================================================
