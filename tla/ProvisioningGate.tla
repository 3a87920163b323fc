-------------------------- MODULE ProvisioningGate --------------------------
(***************************************************************************)
(* The provisioning gate of static sites (app/services/provisioning_gate.  *)
(* py): what it reads of a container, its directory and its route, and the *)
(* status it derives.  The caller says what docker, the file system and    *)
(* the network answer; a call that raises leaves its checks FALSE.         *)
(***************************************************************************)

\* validate_static_tenant_provisioning starts from these.
NoChecks == [exists |-> FALSE, running |-> FALSE, directory |-> FALSE, mount |-> FALSE,
             index |-> FALSE, welcome |-> FALSE, placeholder |-> FALSE,
             route |-> FALSE, yaml |-> "unchecked", public |-> "none"]

ContainerChecked(c, state) ==
    IF state = "absent" THEN c
    ELSE [c EXCEPT !.exists = TRUE, !.running = state = "running"]

MountChecked(c, directory, bound) == [c EXCEPT !.directory = directory, !.mount = bound]

\* page: "none", "welcome", "placeholder" or "site"
IndexChecked(c, page) ==
    [c EXCEPT !.index = page # "none", !.welcome = page = "welcome",
              !.placeholder = page = "placeholder"]

\* file: "none", "bundle" (the legacy file of all tenants), "valid" or "invalid"; the
\* structure of the bundle is not looked at.
RouteChecked(c, file) ==
    [c EXCEPT !.route = file # "none",
              !.yaml = IF file \in {"valid", "invalid"} THEN file ELSE @]

\* _evaluate: the first thing wrong decides.
Evaluate(c) ==
    CASE ~c.exists \/ ~c.running \/ ~c.directory \/ ~c.mount -> "provisioning_failed"
      [] c.public \in {"502", "504", "526"} \/ c.welcome     -> "routing_failed"
      [] ~c.route            -> "routing_degraded"
      [] c.yaml = "invalid"  -> "routing_failed"
      [] ~c.index            -> "pending_content"
      [] c.placeholder       -> "active_with_placeholder"
      [] OTHER               -> "active"

\* The gate without its two requests, as both its callers run it: public stays "none".
Gate(state, directory, bound, page, file) ==
    Evaluate(RouteChecked(IndexChecked(MountChecked(
        ContainerChecked(NoChecks, state), directory, bound), page), file))
=============================================================================
