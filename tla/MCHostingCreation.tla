-------------------------- MODULE MCHostingCreation --------------------------
\* A small instance of HostingCreation: a free user with a git deploy and a static site, and a
\* paying one who asks for a WordPress site under the static site's name.
EXTENDS HostingCreation

CONSTANTS free, paid, git, static, wp

Accounts == [r \in Requests |-> IF r = wp THEN paid ELSE free]
Routes == [r \in Requests |->
            CASE r = git -> "git" [] r = wp -> "wordpress" [] r = static -> "static"]
Subdomains == [r \in Requests |-> IF r = git THEN "blog" ELSE "shop"]
Addresses == [r \in Requests |-> "here"]
One == [u \in Users |-> 1]

===============================================================================
