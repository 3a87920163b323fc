----------------------------- MODULE Preflight -----------------------------
(***************************************************************************)
(* What a repository's project must be before its dependencies are         *)
(* installed (app/services/deploy/project_detector.py and                  *)
(* dependency_preflight.py), and what installs them.  A project is what    *)
(* these read of its manifests; the words of the answers are left out.     *)
(***************************************************************************)
EXTENDS Integers, FiniteSets
LOCAL INSTANCE SequencesExt

LockFiles == {"package-lock.json", "npm-shrinkwrap.json", "pnpm-lock.yaml", "yarn.lock"}

Project ==
    [roots : Nat,           \* directories that hold a buildable project
     sass : BOOLEAN,        \* node-sass in package.json or in a lock file
     tanstack : {"none", "named", "compromised"},   \* named in package.json; pinned to a bad version
     locks : SUBSET LockFiles,
     node : Nat,            \* declared by .nvmrc or .node-version
     upTo : Nat,            \* the upper bound in engines.node
     next : {"none", "export", "ssr"}]

\* _find_buildable_roots, with the answers of the caller.
FindRoot(p) ==
    CASE p.roots = 0 -> "package_json_not_found"
      [] p.roots = 1 -> "ok"
      [] p.roots > 1 -> "multiple_project_roots_detected"

\* _node_sass_check
NodeSassCheck(p) == IF p.sass THEN "node_sass_incompatible" ELSE "ok"

\* _tanstack_supply_chain_check
TanstackCheck(p) ==
    CASE p.tanstack = "compromised"               -> "npm_supply_chain_tanstack_compromise"
      [] p.tanstack = "named" /\ p.locks = {}     -> "npm_lockfile_required_for_supply_chain_safety"
      [] OTHER                                    -> "ok"

ManagerOf ==
    [f \in LockFiles |-> CASE f = "pnpm-lock.yaml" -> "pnpm" [] f = "yarn.lock" -> "yarn" [] OTHER -> "npm"]

Managers(p) == {ManagerOf[f] : f \in p.locks}

\* _package_manager_check: the two lock files of npm count once.
PackageManagerCheck(p) ==
    CASE Cardinality(Managers(p)) > 1 -> "multiple_lockfiles_detected"
      [] Managers(p) = {}             -> "lockfile_required"
      [] OTHER                        -> "ok"

\* _node_version_check
NodeVersionCheck(p) == IF p.node < 16 \/ p.upTo < 20 THEN "node_version_mismatch" ELSE "ok"

\* _next_ssr_check
NextSsrCheck(p) == IF p.next = "ssr" THEN "next_ssr_not_supported" ELSE "ok"

\* run_dependency_preflight: the first check that finds something.
RunDependencyPreflight(p) ==
    LET answers == <<NodeSassCheck(p), TanstackCheck(p), PackageManagerCheck(p), NodeVersionCheck(p), NextSsrCheck(p)>>
        found == SelectInSeq(answers, LAMBDA a : a # "ok")
    IN  IF found = 0 THEN "ok" ELSE answers[found]

\* detect_package_manager
DetectPackageManager(p) ==
    CASE "pnpm-lock.yaml" \in p.locks -> "pnpm"
      [] "yarn.lock" \in p.locks      -> "yarn"
      [] OTHER                        -> "npm"

\* A conflict of peer dependencies is tried once more by npm alone.
Retried(manager, conflict) == manager = "npm" /\ conflict
=============================================================================
