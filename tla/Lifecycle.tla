------------------------------ MODULE Lifecycle -----------------------------
(***************************************************************************)
(* The process on the server's host: what main decides when it boots, the  *)
(* setup wizard that changes the decision of later boots, and what is      *)
(* served meanwhile.                                                       *)
(*                                                                         *)
(* main opens the database, creates the tables of the platform and of all  *)
(* modules (Register), reads the mode, and only if the setup is complete   *)
(* initialises the modules (Registry.Start), which is what registers their *)
(* routes.  A step of this that fails ends the process: such a boot is     *)
(* left out, it changes nothing.                                           *)
(***************************************************************************)
EXTENDS Naturals

CONSTANT MaxFaults   \* bound on operations that fail

ASSUME LifecycleBoundsAssumption == MaxFaults \in Nat

VARIABLES
    saved,    \* platform_settings: setup_complete and mode ("" if absent)
    proc,     \* "down", "serving", or "silent": it runs and does not listen
    routes,   \* the modules' routes are registered
    faults

serverVars == <<saved, proc, routes>>

Modes == {"server", "agent"}

ServerTypeOK ==
    /\ saved \in [complete : BOOLEAN, mode : Modes \cup {""}]
    /\ saved.complete <=> saved.mode # ""
    /\ proc \in {"down", "serving", "silent"}
    /\ routes \in BOOLEAN
    /\ routes => proc # "down" /\ saved.complete
    /\ faults \in 0 .. MaxFaults

ServerInit ==
    /\ saved = [complete |-> FALSE, mode |-> ""]
    /\ proc = "down"
    /\ routes = FALSE
    /\ faults = 0

Fault == faults < MaxFaults /\ faults' = faults + 1

\* The API answers, and the modules' part of it does.
Listening == proc = "serving"
Serving   == Listening /\ routes

-----------------------------------------------------------------------------
\* The flag and BIGLYBIGLY_MODE give a mode, "server" if there is neither.  The
\* saved one replaces "server", wherever that comes from.
ModeOf(given) ==
    IF saved.complete /\ given = "server" /\ saved.mode # "" THEN saved.mode ELSE given

\* A process in agent mode serves nothing.
Boot(given) ==
    /\ proc = "down"
    /\ proc' = IF ModeOf(given) = "agent" THEN "silent" ELSE "serving"
    /\ routes' = (ModeOf(given) # "agent" /\ saved.complete)
    /\ UNCHANGED <<saved, faults>>

\* ListenAndServe runs in a goroutine of its own: that it fails is only logged.
BootDeaf(given) ==
    /\ proc = "down" /\ ModeOf(given) = "server"
    /\ Fault
    /\ proc' = "silent"
    /\ routes' = saved.complete
    /\ UNCHANGED saved

\* Fault variant of CompleteSetup: the mode is saved as it comes.
CompleteSetupUnvalidated(mode) ==
    /\ Listening
    /\ saved' = [complete |-> TRUE, mode |-> mode]
    /\ UNCHANGED <<proc, routes, faults>>

\* POST /api/setup/complete.  One transaction: that it fails is as if it had not
\* been sent.  The modules of the running process are not started.
CompleteSetup(mode) ==
    /\ Listening
    /\ mode \in Modes
    /\ saved' = [complete |-> TRUE, mode |-> mode]
    /\ UNCHANGED <<proc, routes, faults>>

\* A signal, or a kill: nothing is written at the end.
Halt ==
    /\ proc # "down"
    /\ proc' = "down"
    /\ routes' = FALSE
    /\ UNCHANGED <<saved, faults>>
=============================================================================
