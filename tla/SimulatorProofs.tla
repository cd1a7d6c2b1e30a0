---------------------------- MODULE SimulatorProofs ----------------------------
(***************************************************************************)
(* The control key for any number of commands, crashes and failed calls:   *)
(* whatever the API overwrites and wherever the producer dies, a command   *)
(* is acted on at most once, and never after a later one.                  *)
(***************************************************************************)
EXTENDS SimulatorControl, TLAPS

-----------------------------------------------------------------------------
(* The inductive invariant *)

ControlTypes ==
  /\ issued \in Seq({"trigger", "reset"})
  /\ key \in 0..Len(issued)
  /\ step \in {"down", "start", "get", "delete", "apply", "show", "emit", "publish"}
  /\ command \in 0..Len(issued)
  /\ applied \in Seq(1..Len(issued))

Later(n) == \A m \in 1..Len(applied) : applied[m] < n

\* A command in the key, and one in hand, is later than all that was applied;
\* what the key holds once DELETE was sent is later than the one in hand.
KeyIsAhead ==
  /\ key # 0 => Later(key)
  /\ step \in {"delete", "apply"} => command # 0 /\ Later(command)
  /\ step = "delete" => key = 0 \/ key >= command
  /\ step = "apply" => key = 0 \/ key > command

ControlInv == ControlTypes /\ KeyIsAhead /\ CommandsApplyOnceInOrder

-----------------------------------------------------------------------------
(* Every step preserves it *)

\* Nothing was issued or applied at the start.
LEMMA ControlInit == Init => ControlInv
  BY DEF Init, ControlInv, ControlTypes, KeyIsAhead, Later, CommandsApplyOnceInOrder

\* A new command has the greatest number so far.
LEMMA SettingKeepsControlInv ==
  ASSUME ControlInv, NEW c \in {"trigger", "reset"}, set_control(c)
  PROVE  ControlInv'
<1>1. /\ issued' \in Seq({"trigger", "reset"}) /\ Len(issued') = Len(issued) + 1
      /\ key' = Len(issued) + 1 /\ Len(issued) \in Nat
      /\ UNCHANGED <<step, command, applied>>
  BY DEF set_control, ControlInv, ControlTypes, producerVars
<1>2. applied \in Seq(1..(Len(issued) + 1))
  BY <1>1 DEF ControlInv, ControlTypes
<1>3. ControlTypes'
  BY <1>1, <1>2 DEF ControlInv, ControlTypes
<1>4. \A m \in 1..Len(applied) : applied[m] \in 1..Len(issued)
  BY DEF ControlInv, ControlTypes
<1>5. Later(key)'
  BY <1>1, <1>4 DEF Later
<1>6. KeyIsAhead'
  BY <1>1, <1>5 DEF ControlInv, ControlTypes, KeyIsAhead, Later
<1>7. CommandsApplyOnceInOrder'
  BY <1>1 DEF ControlInv, CommandsApplyOnceInOrder
<1> QED
  BY <1>3, <1>6, <1>7 DEF ControlInv

\* apply_control: the one step that extends what was applied.
LEMMA ApplyingKeepsControlInv ==
  ASSUME ControlInv, apply_control
  PROVE  ControlInv'
<1>1. /\ step = "apply" /\ step' = "show" /\ UNCHANGED <<issued, key, command>>
      /\ applied' = Append(applied, command)
  BY DEF apply_control, apiVars
<1>2. command \in 1..Len(issued) /\ Later(command) /\ (key = 0 \/ key > command)
  BY <1>1 DEF ControlInv, ControlTypes, KeyIsAhead
<1>3. /\ applied' \in Seq(1..Len(issued)) /\ Len(applied') = Len(applied) + 1
      /\ applied'[Len(applied) + 1] = command /\ Len(applied) \in Nat
      /\ \A m \in 1..Len(applied) : applied'[m] = applied[m] /\ applied[m] \in 1..Len(issued)
  BY <1>1, <1>2 DEF ControlInv, ControlTypes
<1>4. ControlTypes'
  BY <1>1, <1>3 DEF ControlInv, ControlTypes
<1>5. KeyIsAhead'
  BY <1>1, <1>2, <1>3 DEF ControlInv, ControlTypes, KeyIsAhead, Later
<1>6. CommandsApplyOnceInOrder'
  <2> SUFFICES ASSUME NEW m \in 1..Len(applied'), NEW n \in 1..Len(applied'), m < n
               PROVE  applied'[m] < applied'[n]
    BY DEF CommandsApplyOnceInOrder
  <2>1. m \in 1..Len(applied) /\ applied'[m] = applied[m]
    BY <1>3
  <2>2. CASE n = Len(applied) + 1
    BY <1>2, <1>3, <2>1, <2>2 DEF Later
  <2>3. CASE n # Len(applied) + 1
    <3>1. Len(applied') = Len(applied) + 1 /\ Len(applied) \in Nat
      BY <1>3
    <3>2. n \in 1..Len(applied)
      BY <2>3, <3>1
    <3>3. applied'[n] = applied[n]
      BY <1>3, <3>2
    <3> QED
      BY <2>1, <3>2, <3>3 DEF ControlInv, CommandsApplyOnceInOrder
  <2> QED
    BY <2>2, <2>3
<1> QED
  BY <1>4, <1>5, <1>6 DEF ControlInv

\* GET and DELETE move a command from the key into the producer's hands.
LEMMA TakingKeepsControlInv ==
  ASSUME ControlInv, get_control \/ delete_control
  PROVE  ControlInv'
<1>1. UNCHANGED <<issued, applied>>
  BY DEF get_control, delete_control, apiVars
<1>2. CASE get_control
  BY <1>1, <1>2 DEF get_control, apiVars, ControlInv, ControlTypes, KeyIsAhead, Later,
                    CommandsApplyOnceInOrder
<1>3. CASE delete_control
  BY <1>1, <1>3 DEF delete_control, ControlInv, ControlTypes, KeyIsAhead, Later,
                    CommandsApplyOnceInOrder
<1> QED
  BY <1>2, <1>3

\* The other steps leave the key or empty it, and have no command in hand after.
LEMMA RestKeepsControlInv ==
  ASSUME ControlInv,
         UNCHANGED <<issued, applied>>, key' \in {0, key}, command' \in {0, command},
         \/ UNCHANGED <<step, key, command>>
         \/ step' \in {"down", "start", "get", "emit", "publish"}
  PROVE  ControlInv'
<1>1. ControlTypes'
  BY DEF ControlInv, ControlTypes
<1>2. KeyIsAhead'
  BY DEF ControlInv, ControlTypes, KeyIsAhead, Later
<1>3. CommandsApplyOnceInOrder'
  BY DEF ControlInv, CommandsApplyOnceInOrder
<1> QED
  BY <1>1, <1>2, <1>3 DEF ControlInv

-----------------------------------------------------------------------------
(* Theorems *)

\* ControlInv holds in every state: commands in the key and in hand are later
\* than all that simulator/service.py _check_control has acted on.
THEOREM ControlInvariant == Spec => []ControlInv
<1>1. ControlInv /\ [Next]_vars => ControlInv'
  <2> SUFFICES ASSUME ControlInv, [Next]_vars
               PROVE  ControlInv'
    OBVIOUS
  <2>1. CASE \E c \in {"trigger", "reset"} : set_control(c)
    BY <2>1, SettingKeepsControlInv
  <2>2. CASE key_expires
    BY <2>2, RestKeepsControlInv DEF key_expires, producerVars
  <2>3. CASE start
    BY <2>3, RestKeepsControlInv DEF start, apiVars
  <2>4. CASE get_control \/ delete_control
    BY <2>4, TakingKeepsControlInv
  <2>5. CASE apply_control
    BY <2>5, ApplyingKeepsControlInv
  <2>6. CASE publish_state \/ publish_state_fails
    <3>1. step' \in {"get", "emit"} /\ UNCHANGED <<issued, key, command, applied>>
      BY <2>6 DEF publish_state, publish_state_fails, AfterPublish, apiVars
    <3> QED
      BY <3>1, RestKeepsControlInv
  <2>7. CASE emit_all_sensors
    BY <2>7, RestKeepsControlInv DEF emit_all_sensors, apiVars
  <2>8. CASE advance_raises
    BY <2>8, RestKeepsControlInv DEF advance_raises, apiVars
  <2>9. CASE crash
    BY <2>9, RestKeepsControlInv DEF crash, apiVars
  <2>10. CASE UNCHANGED vars
    BY <2>10, RestKeepsControlInv DEF vars, apiVars, producerVars
  <2> QED
    BY <2>1, <2>2, <2>3, <2>4, <2>5, <2>6, <2>7, <2>8, <2>9, <2>10 DEF Next, ProducerStep
<1> QED
  BY ControlInit, <1>1, PTL DEF Spec

\* No command is acted on twice, or after a later one.
THEOREM CommandsOnceInOrder == Spec => []CommandsApplyOnceInOrder
<1>1. ControlInv => CommandsApplyOnceInOrder
  BY DEF ControlInv
<1> QED
  BY <1>1, ControlInvariant, PTL

\* The producer's mode, what it showed and emitted, and the bounds: each step
\* keeps what ControlTypes does not speak of.
LEMMA ShownAndEmittedTypes ==
  ASSUME SimulatorTypeOK, ControlInv', [Next]_vars
  PROVE  SimulatorTypeOK'
<1> USE SimulatorAssumption DEF Mode
<1> DEFINE RestIsTyped ==
      /\ source \in Sources /\ Len(issued) <= MaxCommands
      /\ shown \in Mode \cup {"unknown"} /\ mode \in Mode
      /\ emitted \in Mode \cup {"none"} /\ faults \in 0..MaxFaults
<1> SUFFICES RestIsTyped'
  BY DEF ControlInv, ControlTypes, KeyIsAhead, SimulatorTypeOK
<1>1. ASSUME NEW c \in {"trigger", "reset"}, set_control(c)
      PROVE  RestIsTyped'
  <2>1. Len(issued') = Len(issued) + 1 /\ Len(issued) \in Nat /\ Len(issued) < MaxCommands
    BY <1>1 DEF set_control, SimulatorTypeOK
  <2> QED
    BY <1>1, <2>1 DEF set_control, producerVars, SimulatorTypeOK
<1>2. CASE key_expires
  BY <1>2 DEF key_expires, producerVars, SimulatorTypeOK
<1>3. CASE start \/ get_control \/ delete_control
  BY <1>3 DEF start, get_control, delete_control, apiVars, SimulatorTypeOK
<1>4. CASE apply_control
  BY <1>4 DEF apply_control, apiVars, SimulatorTypeOK
<1>5. CASE publish_state \/ publish_state_fails
  BY <1>5 DEF publish_state, publish_state_fails, apiVars, SimulatorTypeOK
<1>6. CASE emit_all_sensors
  BY <1>6 DEF emit_all_sensors, apiVars, SimulatorTypeOK
<1>7. CASE advance_raises \/ crash
  BY <1>7 DEF advance_raises, crash, apiVars, SimulatorTypeOK
<1>8. CASE UNCHANGED vars
  BY <1>8 DEF vars, apiVars, producerVars, SimulatorTypeOK
<1> HIDE DEF RestIsTyped
<1> QED
  BY <1>1, <1>2, <1>3, <1>4, <1>5, <1>6, <1>7, <1>8 DEF Next, ProducerStep

\* The two Redis keys, the producer's locals and the histories keep their
\* types; DELETE and the change of mode always have a command in hand.
THEOREM SimulatorTypes == Spec => []SimulatorTypeOK
<1>1. Init => SimulatorTypeOK
  BY SimulatorAssumption DEF Init, SimulatorTypeOK, Mode
<1> QED
  BY <1>1, ShownAndEmittedTypes, ControlInvariant, PTL DEF Spec
=============================================================================
