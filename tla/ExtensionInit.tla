--------------------------- MODULE ExtensionInit ---------------------------
(***************************************************************************)
(* The server extension's one initialisation, src/hypernote/server/        *)
(* extension.py: every request first awaits _ensure_initialized.           *)
(*                                                                         *)
(* Ledger is a protocol whose initialize may suspend; that of MemoryLedger *)
(* does not, which is the behaviour where an initialising request goes on  *)
(* at once.  Nothing else in the initialisation suspends.                  *)
(***************************************************************************)
EXTENDS Integers

CONSTANT Requests   \* HTTP requests; each awaits get_orch once

VARIABLES
  ext,   \* the extension's attributes
  gate   \* where each request is in get_orch

extensionVars == <<ext, gate>>

(* _orchestrator with the settings, _runtime_mgr, _init_error, _init_event, *)
(* the routes put before Jupyter's, and the GC loops started.               *)
Extension ==
  [orch : BOOLEAN, manager : BOOLEAN, error : BOOLEAN,
   event : {"none", "unset", "set"}, routes : BOOLEAN, loops : 0..2]

Gate == {"away", "initializing", "waiting", "ready", "refused"}

ExtensionTypeOK == ext \in Extension /\ gate \in [Requests -> Gate]

ExtensionInit ==
  /\ ext = [orch |-> FALSE, manager |-> FALSE, error |-> FALSE,
            event |-> "none", routes |-> FALSE, loops |-> 0]
  /\ gate = [h \in Requests |-> "away"]

Passes(h, where) == gate' = [gate EXCEPT ![h] = where]

(* Variant: the guard asks for the result of an initialisation only, so a   *)
(* request that arrives during one begins another.                          *)
ArrivesUnguarded(h) ==
  /\ gate[h] = "away"
  /\ IF ext.orch THEN Passes(h, "ready") /\ UNCHANGED ext
     ELSE IF ext.error THEN Passes(h, "refused") /\ UNCHANGED ext
     ELSE Passes(h, "initializing") /\ ext' = [ext EXCEPT !.event = "unset"]

(* _ensure_initialized up to its first suspension *)
Arrives(h) ==
  /\ gate[h] = "away"
  /\ IF ext.orch THEN Passes(h, "ready") /\ UNCHANGED ext
     ELSE IF ext.error THEN Passes(h, "refused") /\ UNCHANGED ext
     ELSE IF ext.event # "none" THEN Passes(h, "waiting") /\ UNCHANGED ext
     ELSE Passes(h, "initializing") /\ ext' = [ext EXCEPT !.event = "unset"]

(* The initialisation to its end *)
Initializes(h) ==
  /\ gate[h] = "initializing"
  /\ ext' = [orch |-> TRUE, manager |-> TRUE, error |-> FALSE,
             event |-> "set", routes |-> TRUE, loops |-> ext.loops + 1]
  /\ Passes(h, "ready")

(* Variant: the event is set when the initialisation has succeeded. *)
InitializationFailsQuietly(h) ==
  /\ gate[h] = "initializing"
  /\ ext' = [ext EXCEPT !.error = TRUE]
  /\ Passes(h, "refused")

(* A required extension is not loaded: nothing was made yet. *)
InitializationFails(h) ==
  /\ gate[h] = "initializing"
  /\ ext' = [ext EXCEPT !.error = TRUE, !.event = "set"]
  /\ Passes(h, "refused")

(* _install_interrupt_intercept raises: the orchestrator is there already. *)
InstallFails(h) ==
  /\ gate[h] = "initializing"
  /\ ext' = [orch |-> TRUE, manager |-> TRUE, error |-> TRUE,
             event |-> "set", routes |-> FALSE, loops |-> ext.loops + 1]
  /\ Passes(h, "refused")

(* From _init_event.wait *)
Wakes(h) ==
  /\ gate[h] = "waiting"
  /\ ext.event = "set"
  /\ Passes(h, IF ext.error \/ ~ext.orch THEN "refused" ELSE "ready")
  /\ UNCHANGED ext

GateStep(h) ==
  Arrives(h) \/ Initializes(h) \/ InitializationFails(h) \/ InstallFails(h) \/ Wakes(h)

(* The steps a request takes once it has arrived *)
GateContinues(h) ==
  Initializes(h) \/ InitializationFails(h) \/ InstallFails(h) \/ Wakes(h)

(* However first requests overlap and whatever fails, there is one runtime  *)
(* manager with one GC loop, it is the one stop_extension shuts down, and   *)
(* no request goes on before it is there.                                   *)
OneControlPlane ==
  /\ ext.loops <= 1
  /\ ext.loops = 1 => ext.manager
  /\ \A h \in Requests : gate[h] = "ready" => ext.manager /\ ext.orch

=============================================================================
