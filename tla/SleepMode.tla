----------------------------- MODULE SleepMode -----------------------------
(***************************************************************************)
(* devpod pro sleep and devpod pro wakeup (cmd/pro): read the instance,    *)
(* change its annotations, send the difference as a merge patch and wait   *)
(* for the platform to follow.  Other clients and the platform change the  *)
(* instance meanwhile.  The annotations of a Go object are a map, that is  *)
(* a reference: the copy the patch is computed from shares it, because its *)
(* ObjectMeta is assigned from the changed object.                         *)
(***************************************************************************)
EXTENDS Integers, FiniteSets

CONSTANTS ForceSleep,        \* SleepModeForceAnnotation
          Duration,     \* SleepModeForceDurationAnnotation
          Activity,     \* SleepModeLastActivityAnnotation
          Foreign,      \* annotations of others
          MaxSleepCommands, MaxSleepPolls, MaxForeign

SleepKeys == {ForceSleep, Duration, Activity}

ASSUME SleepModeAssumption ==
    /\ Cardinality(SleepKeys) = 3 /\ SleepKeys \cap Foreign = {}
    /\ {MaxSleepCommands, MaxSleepPolls, MaxForeign} \subseteq Nat

VARIABLES annotations,   \* on the platform
          noMap,         \* the instance has no annotations at all (a nil map)
          phase,         \* "ready" or "sleeping"
          sleepCmd,      \* the running command
          asked,         \* a sleep was patched in and nothing woke the instance since
          sleepCommands, foreignSteps

sleepVars == <<annotations, noMap, phase, sleepCmd, asked, sleepCommands, foreignSteps>>

NoSleepCommand == [pc |-> "idle", kind |-> "sleep", old |-> {}, new |-> {}, polls |-> 0]

SleepInit ==
    /\ annotations \in (SUBSET Foreign) \cup {{Activity}}
    /\ noMap = (annotations = {})
    /\ phase = "ready" /\ sleepCmd = NoSleepCommand /\ asked = FALSE
    /\ sleepCommands = 0 /\ foreignSteps = 0

\* A merge patch holds what differs between old and new, and leaves the rest alone.
Patch(now, old, new) == (now \cup (new \ old)) \ (old \ new)

\* FindInstanceByName, the deep copy and the change.  A map that exists is changed in
\* the copy as well; a nil map is replaced in the object only.
ReadInstance(kind, changed) ==
    /\ sleepCmd.pc = "idle" /\ sleepCommands < MaxSleepCommands
    /\ sleepCommands' = sleepCommands + 1
    /\ sleepCmd' = [pc |-> "patch", kind |-> kind, new |-> changed, polls |-> 0,
                    old |-> IF noMap THEN annotations ELSE changed]
    /\ UNCHANGED <<annotations, noMap, phase, asked, foreignSteps>>

Sleep(preventWakeup) ==
    ReadInstance("sleep", annotations \cup {ForceSleep} \cup (IF preventWakeup THEN {Duration} ELSE {}))

\* An instance that does not sleep needs no wakeup.
Wakeup ==
    /\ phase = "sleeping"
    /\ ReadInstance("wakeup", (annotations \ {ForceSleep, Duration}) \cup {Activity})

\* The request may fail.
SendPatch ==
    /\ sleepCmd.pc = "patch"
    /\ \/ /\ annotations' = Patch(annotations, sleepCmd.old, sleepCmd.new)
          /\ noMap' = (annotations' = {})
          /\ sleepCmd' = [sleepCmd EXCEPT !.pc = "wait"]
          /\ asked' = (sleepCmd.kind = "sleep")
       \/ sleepCmd' = NoSleepCommand /\ UNCHANGED <<annotations, noMap, asked>>
    /\ UNCHANGED <<phase, sleepCommands, foreignSteps>>

\* PollUntilContextTimeout: the phase, a request that fails, or the limit.
PollPhase ==
    /\ sleepCmd.pc = "wait"
    /\ LET there == phase = (IF sleepCmd.kind = "sleep" THEN "sleeping" ELSE "ready")
       IN sleepCmd' \in
            {IF there \/ sleepCmd.polls = MaxSleepPolls THEN NoSleepCommand
             ELSE [sleepCmd EXCEPT !.polls = @ + 1],
             NoSleepCommand}
    /\ UNCHANGED <<annotations, noMap, phase, asked, sleepCommands, foreignSteps>>

\* The platform follows the annotations; an unused instance falls asleep by itself.
PlatformSleeps ==
    /\ phase = "ready" /\ (ForceSleep \in annotations \/ foreignSteps < MaxForeign)
    /\ foreignSteps' = IF ForceSleep \in annotations THEN foreignSteps ELSE foreignSteps + 1
    /\ phase' = "sleeping"
    /\ UNCHANGED <<annotations, noMap, sleepCmd, asked, sleepCommands>>

PlatformWakes ==
    /\ phase = "sleeping" /\ ForceSleep \notin annotations /\ Activity \in annotations
    /\ phase' = "ready"
    /\ UNCHANGED <<annotations, noMap, sleepCmd, asked, sleepCommands, foreignSteps>>

\* Another client annotates the instance, or touches it.
OtherAnnotates(k) ==
    /\ foreignSteps < MaxForeign /\ foreignSteps' = foreignSteps + 1
    /\ annotations' = annotations \cup {k} /\ noMap' = FALSE
    /\ UNCHANGED <<phase, sleepCmd, asked, sleepCommands>>

SleepNext ==
    \/ \E p \in BOOLEAN : Sleep(p)
    \/ Wakeup \/ SendPatch \/ PollPhase
    \/ PlatformSleeps \/ PlatformWakes \/ \E k \in Foreign \cup {Activity} : OtherAnnotates(k)

SleepSpec == SleepInit /\ [][SleepNext]_sleepVars

-----------------------------------------------------------------------------
\* What others wrote on the instance since it was read survives the command: the patch
\* touches the annotations of the sleep mode only.
OthersAnnotationsKept == [][annotations \cap Foreign \subseteq annotations']_sleepVars

\* "Put a workspace to sleep" (cmd/pro/sleep.go:40): once its patch is accepted the
\* instance carries the annotation that puts it to sleep.
SleepIsAsked == asked => ForceSleep \in annotations
=============================================================================
