--------------------------- MODULE SimulatorControl ---------------------------
(***************************************************************************)
(* The sensor-data container and its two Redis keys: the API writes        *)
(* "pgai:simulator:control" (api/simulator.py), the producer consumes it   *)
(* once a tick and publishes "pgai:simulator:state".  The producer is the  *)
(* synthetic simulator (simulator/service.py) or the TEP replay            *)
(* (simulator/tep_replay.py), chosen at start (simulator_main.py).         *)
(*                                                                         *)
(* Every Redis call of the producer is a step of its own.  Commands are    *)
(* numbered in the order the API accepted them.                            *)
(***************************************************************************)
EXTENDS Naturals, Sequences

CONSTANTS
  Sources,      \* the values of SENSOR_DATA_SOURCE
  Faults,
  MaxCommands,  \* bound: commands accepted in a behaviour
  MaxFaults     \* bound: crashes and failed calls in a behaviour

ASSUME SimulatorAssumption ==
  /\ Sources \subseteq {"synthetic", "tep_replay"}
  /\ Faults \subseteq {"crash", "state"}
  /\ MaxCommands \in Nat /\ MaxFaults \in Nat

VARIABLES
  source,
  issued,   \* history: the commands the API accepted
  key,      \* the control key: the number of a command, 0 when there is none
  shown,    \* the mode in the state key
  step,     \* where the producer is; "down": no process
  command,  \* local: what GET returned
  mode,     \* local: _mode
  emitted,  \* the mode of the latest readings in the stream
  applied,  \* history: the commands the producer acted on
  faults    \* how many faults there were

apiVars == <<issued, key>>
producerVars == <<step, command, mode>>
vars == <<source, apiVars, shown, producerVars, emitted, applied, faults>>

Mode == {"normal", "scenario"}
Command == 1..MaxCommands

SimulatorTypeOK ==
  /\ source \in Sources
  /\ issued \in Seq({"trigger", "reset"}) /\ Len(issued) <= MaxCommands
  /\ key \in 0..Len(issued)
  /\ shown \in Mode \cup {"unknown"}
  /\ step \in {"down", "start", "get", "delete", "apply", "show", "emit", "publish"}
  /\ command \in 0..Len(issued)
  /\ step \in {"delete", "apply"} => command # 0
  /\ mode \in Mode
  /\ emitted \in Mode \cup {"none"}
  /\ applied \in Seq(1..Len(issued))
  /\ faults \in 0..MaxFaults

Init ==
  /\ source \in Sources
  /\ issued = <<>> /\ key = 0 /\ shown = "unknown"
  /\ step = "down" /\ command = 0 /\ mode = "normal"
  /\ emitted = "none" /\ applied = <<>> /\ faults = 0

-----------------------------------------------------------------------------
(* The API *)

\* trigger_cooling_tower_incident, reset: one SET, whatever the key holds.
set_control(c) ==
  /\ Len(issued) < MaxCommands
  /\ issued' = Append(issued, c)
  /\ key' = Len(issued) + 1
  /\ UNCHANGED <<source, shown, producerVars, emitted, applied, faults>>

\* ex=60: longer than a tick, so a key only expires while nothing consumes it.
key_expires ==
  /\ step = "down"
  /\ key # 0
  /\ key' = 0
  /\ UNCHANGED <<source, issued, shown, producerVars, emitted, applied, faults>>

-----------------------------------------------------------------------------
(* The producer *)

\* main: sensors are loaded and run() is entered.
start ==
  /\ step = "down"
  /\ step' = "start"
  /\ UNCHANGED <<source, apiVars, shown, command, mode, emitted, applied, faults>>

\* Faulty variant: does not look whether there is a command.
get_control_unchecked ==
  /\ step = "get"
  /\ command' = key
  /\ step' = "delete"
  /\ UNCHANGED <<source, apiVars, shown, mode, emitted, applied, faults>>

\* Faulty variant: readings are emitted only in a tick that has a command.
get_control_or_skip ==
  /\ step = "get"
  /\ command' = key
  /\ step' = IF key = 0 THEN "publish" ELSE "delete"
  /\ UNCHANGED <<source, apiVars, shown, mode, emitted, applied, faults>>

\* Faulty variant: no branch for "reset".
get_control_trigger_only ==
  /\ step = "get"
  /\ command' = key
  /\ step' = IF key = 0 \/ issued[key] = "reset" THEN "emit" ELSE "delete"
  /\ UNCHANGED <<source, apiVars, shown, mode, emitted, applied, faults>>

\* _check_control: GET.
get_control ==
  /\ step = "get"
  /\ command' = key
  /\ step' = IF key = 0 THEN "emit" ELSE "delete"
  /\ UNCHANGED <<source, apiVars, shown, mode, emitted, applied, faults>>

\* Faulty variant: the key is left to expire.
delete_control_never ==
  /\ step = "delete"
  /\ step' = "apply"
  /\ UNCHANGED <<source, apiVars, shown, command, mode, emitted, applied, faults>>

\* _check_control: DELETE, of whatever the key holds by now.
delete_control ==
  /\ step = "delete"
  /\ key' = 0
  /\ step' = "apply"
  /\ UNCHANGED <<source, issued, shown, command, mode, emitted, applied, faults>>

\* _check_control: the mode, once DELETE has returned; in the TEP replay
\* trigger_fault and reset.
apply_control ==
  /\ step = "apply"
  /\ mode' = IF issued[command] = "trigger" THEN "scenario" ELSE "normal"
  /\ applied' = Append(applied, command)
  /\ step' = "show"
  /\ UNCHANGED <<source, apiVars, shown, command, emitted, faults>>

\* Where the producer goes from each of its three calls of _publish_state.
AfterPublish ==
  step' = CASE step = "start" -> "get" [] step = "show" -> "emit" [] step = "publish" -> "get"

\* Faulty variant: the state is published only when a command changed it.
publish_state_on_command ==
  /\ step \in {"start", "show", "publish"}
  /\ shown' = IF step = "show" THEN mode ELSE shown
  /\ AfterPublish
  /\ UNCHANGED <<source, apiVars, command, mode, emitted, applied, faults>>

\* _publish_state: at the start, after a command, at the end of a tick.
publish_state ==
  /\ step \in {"start", "show", "publish"}
  /\ shown' = mode
  /\ AfterPublish
  /\ UNCHANGED <<source, apiVars, command, mode, emitted, applied, faults>>

\* Its SET fails: logged, and the producer goes on.
publish_state_fails ==
  /\ "state" \in Faults /\ faults < MaxFaults
  /\ step \in {"start", "show", "publish"}
  /\ AfterPublish
  /\ faults' = faults + 1
  /\ UNCHANGED <<source, apiVars, shown, command, mode, emitted, applied>>

\* SensorSimulator._emit_all_sensors.
emit_all_sensors ==
  /\ source = "synthetic"
  /\ step = "emit"
  /\ emitted' = mode
  /\ step' = "publish"
  /\ UNCHANGED <<source, apiVars, shown, command, mode, applied, faults>>

\* TepReplayEngine.run: `await self._advance()`.  _advance is no coroutine: it
\* schedules the emission and returns None, awaiting which is a TypeError.
\* run() and the process end, and the scheduled emission is cancelled.
advance_raises ==
  /\ source = "tep_replay"
  /\ step = "emit"
  /\ step' = "down" /\ mode' = "normal" /\ command' = 0
  /\ UNCHANGED <<source, apiVars, shown, emitted, applied, faults>>

\* The container dies, or a Redis call other than _publish_state raises.
crash ==
  /\ "crash" \in Faults /\ faults < MaxFaults
  /\ step # "down"
  /\ step' = "down" /\ mode' = "normal" /\ command' = 0
  /\ faults' = faults + 1
  /\ UNCHANGED <<source, apiVars, shown, emitted, applied>>

ProducerStep ==
  \/ start \/ get_control \/ delete_control \/ apply_control
  \/ publish_state \/ publish_state_fails
  \/ emit_all_sensors \/ advance_raises

Next ==
  \/ \E c \in {"trigger", "reset"} : set_control(c)
  \/ key_expires
  \/ ProducerStep
  \/ crash

Spec == Init /\ [][Next]_vars

\* The producer's loop runs, and the container is restarted when it ends
\* (docker-compose.yml, restart: unless-stopped).
FairSpec == Spec /\ WF_vars(ProducerStep)

-----------------------------------------------------------------------------
(* Properties *)

\* A command is acted on at most once and never after a later one, whatever
\* overwrites the key, and wherever the producer dies between GET, DELETE and
\* the change of mode.
CommandsApplyOnceInOrder ==
  \A m, n \in 1..Len(applied) : m < n => applied[m] < applied[n]

\* No command stays in the key: it is consumed, replaced or expires.
CommandIsConsumed ==
  \A n \in Command : key = n ~> key # n

\* GET /simulator/status comes to show the mode the producer is in, although
\* publishing is best effort and a restart changes the mode silently.
StatusCatchesUp ==
  \A m \in Mode : mode = m ~> shown = m \/ mode # m

\* The synthetic producer's readings follow its mode until it changes.
ReadingsFollowMode ==
  source = "synthetic" =>
    \A m \in Mode : mode = m /\ step # "down" ~> emitted = m \/ mode # m \/ step = "down"
=============================================================================
