---------------------------- MODULE MCGitDeploy ----------------------------
\* A small instance of GitDeploy: three commits of which the second does not build, and two
\* redeploys or webhooks and two uploads at a time; a project of npm and one of yarn, and some
\* that the preflight stops.
EXTENDS GitDeploy
CONSTANTS c1, c2, u1, u2

Npm == [roots |-> 1, sass |-> FALSE, tanstack |-> "none", locks |-> {"package-lock.json", "npm-shrinkwrap.json"},
        node |-> 18, upTo |-> 99, next |-> "none"]
Yarn == [Npm EXCEPT !.locks = {"yarn.lock"}, !.next = "export"]
Stopped == {[Npm EXCEPT !.locks = {}, !.tanstack = "named"], [Npm EXCEPT !.locks = {"package-lock.json", "yarn.lock"}],
            [Npm EXCEPT !.sass = TRUE], [Npm EXCEPT !.tanstack = "compromised"], [Npm EXCEPT !.node = 14],
            [Npm EXCEPT !.roots = 2, !.next = "ssr"]}
SomeProjects == {Npm, Yarn} \cup Stopped
=============================================================================
