------------------------------ MODULE Features ------------------------------
(***************************************************************************)
(* One feature of one session id (dataplane/features.c): the switch counts *)
(* in a 32 bit register, feature_export_thread reads it about once a       *)
(* second and adds the difference to a 64 bit value, and dataplane_thread  *)
(* sets the value to 0 when the session ends.  The register itself is      *)
(* never set back.  No lock protects the value, so += is a load and a      *)
(* store.                                                                  *)
(*                                                                         *)
(* Where the code has a snapshot of the register, the model has the total  *)
(* that the switch had counted, of which the code sees the low word.       *)
(* Totals are numbers modulo LongSize, as the 64 bit values are.           *)
(***************************************************************************)
EXTENDS Integers

CONSTANTS WordSize,     \* 2^32
          LongSize,     \* 2^64
          Bursts        \* what the switch may count in one step

ASSUME WordAssumption == WordSize \in Nat \ {0}
ASSUME LongAssumption == LongSize \in Nat /\ LongSize >= 2 * WordSize /\ LongSize % WordSize = 0
ASSUME BurstsAssumption == Bursts \subseteq 1 .. WordSize - 1

VARIABLES register,                 \* the switch's register
          shadow,                   \* the driver's copy of it, made by a sync
          data_plane_values,        \* the newer of the two buffers
          last_data_plane_value,    \* the older one
          values,                   \* the feature's value
          exporter,                 \* where feature_export_thread is
          cleared,                  \* the total of the last read before the value was set to 0
          exact                     \* no read failed and no word overflowed unseen

buffers == <<data_plane_values, last_data_plane_value>>
vars == <<register, shadow, buffers, values, exporter, cleared, exact>>

Word(total) == total % WordSize
Long(n) == n % LongSize

At(step) == exporter.step = step

\* The controller starts; a switch that has run before still has its counts.
Init ==
    /\ register \in 0 .. LongSize - 1
    /\ shadow = 0
    /\ data_plane_values = 0
    /\ last_data_plane_value = 0
    /\ values = 0
    /\ exporter = [step |-> "prepare"]
    /\ cleared = 0
    /\ exact = TRUE

\* The total that the value accounts for: between the swap of the buffers and the
\* addition that is the older one.
Accounted == IF At("process") \/ At("store") THEN last_data_plane_value ELSE data_plane_values

------------------------------------------------------------------------------
(* The switch.  Two counts between which the register overflows look like a    *)
(* small one; the driver has to make its copy before that.                     *)

Count(n) ==
    /\ register' = Long(register + n)
    /\ exact' = (exact /\ Long(register + n - shadow) < WordSize)
    /\ UNCHANGED <<shadow, buffers, values, exporter, cleared>>

------------------------------------------------------------------------------
(* A start of the controller *)

\* reset_fn names another register, as that of iat_log does (line 70).
PrepareKept ==
    /\ At("prepare")
    /\ data_plane_values' = 0
    /\ last_data_plane_value' = 0
    /\ values' = 0
    /\ exporter' = [step |-> "sync"]
    /\ cleared' = register
    /\ exact' = TRUE
    /\ UNCHANGED <<register, shadow>>

\* dataplane_thread: prepare_features, before the first second is over and
\* feature_export_thread reads.
Prepare ==
    /\ At("prepare")
    /\ register' = 0
    /\ shadow' = 0
    /\ data_plane_values' = 0
    /\ last_data_plane_value' = 0
    /\ values' = 0
    /\ exporter' = [step |-> "sync"]
    /\ cleared' = 0
    /\ exact' = TRUE

\* The controller ends, at any point, and is started again.
Restart ==
    /\ ~At("prepare")
    /\ shadow' = 0
    /\ data_plane_values' = 0
    /\ last_data_plane_value' = 0
    /\ values' = 0
    /\ exporter' = [step |-> "prepare"]
    /\ cleared' = 0
    /\ exact' = TRUE
    /\ UNCHANGED register

------------------------------------------------------------------------------
(* feature_export_thread: read_features.  An error of the driver is logged and *)
(* otherwise ignored.                                                          *)

\* sync_feature
Sync(ok) ==
    /\ At("sync")
    /\ shadow' = IF ok THEN register ELSE shadow
    /\ exporter' = [step |-> "read"]
    /\ UNCHANGED <<register, buffers, values, cleared, exact>>

\* read_feature: the buffers are swapped before the read can fail.
Read(ok) ==
    /\ At("read")
    /\ last_data_plane_value' = data_plane_values
    /\ data_plane_values' = IF ok THEN shadow ELSE last_data_plane_value
    /\ exact' = (exact /\ ok)
    /\ exporter' = [step |-> "process"]
    /\ UNCHANGED <<register, shadow, values, cleared>>

\* The difference of 64 bit numbers.
DifferenceLong == Word(data_plane_values) - Word(last_data_plane_value)

\* A register that became smaller is taken for unchanged.
DifferenceClipped ==
    IF Word(data_plane_values) < Word(last_data_plane_value) THEN 0
    ELSE Word(data_plane_values) - Word(last_data_plane_value)

\* data_plane_values[i] - last_data_plane_value[i], a uint32_t.
Difference == Word(Word(data_plane_values) - Word(last_data_plane_value))

\* process_feature: values[i] += the difference.
Load ==
    /\ At("process")
    /\ exporter' = [step |-> "store", value |-> values, since |-> cleared]
    /\ UNCHANGED <<register, shadow, buffers, values, cleared, exact>>

\* A value that was set to 0 since the load comes back.
Store ==
    /\ At("store")
    /\ values' = Long(exporter.value + Difference)
    /\ cleared' = exporter.since
    /\ exporter' = [step |-> "sync"]
    /\ UNCHANGED <<register, shadow, buffers, exact>>

------------------------------------------------------------------------------
(* dataplane_thread: clear_registers *)

\* What the switch counted since the last read will be added to the new value.
Clear ==
    /\ ~At("prepare")
    /\ values' = 0
    /\ cleared' = Accounted
    /\ UNCHANGED <<register, shadow, buffers, exporter, exact>>

Next ==
    \/ \E n \in Bursts : Count(n)
    \/ \E ok \in BOOLEAN : Sync(ok) \/ Read(ok)
    \/ Load
    \/ Store
    \/ Clear
    \/ Prepare
    \/ Restart

Spec == Init /\ [][Next]_vars

\* The threads run for ever, and not every sync fails.
FairSpec ==
    /\ Spec
    /\ WF_vars(Prepare)
    /\ WF_vars(\E ok \in BOOLEAN : Sync(ok) \/ Read(ok))
    /\ WF_vars(Load \/ Store)
    /\ SF_vars(Sync(TRUE))

------------------------------------------------------------------------------
(* Properties *)

\* Whatever syncs and reads fail, however often the register overflows and
\* whenever the value is set to 0 or the controller is started again: the low
\* word of the value is that of what the reads show the switch to have counted
\* since the last one before the value was set to 0 (and stayed so).  What was
\* counted between that read and the clear is in the next session's value: the
\* code does not tell it apart, and the property does not object.  The buffers
\* that a failed read leaves in the wrong order do no lasting harm.
CorrectModuloWord == Word(values) = Word(Accounted - cleared)

\* As long as no read fails and the register does not run around between two
\* syncs, the 64 bit value is exact in the same sense, through overflows of the 32 bit
\* register and failed syncs.
ValueExact == exact => values = Long(Accounted - cleared)

\* Once the switch counts no more and reads succeed again, the value catches up
\* with the register, whatever failed before.  (It does not if reads fail every
\* other time: they bring the older buffer back again and again.)
CatchesUp ==
    <>[][~Clear /\ UNCHANGED register /\ (At("read") => data_plane_values' = shadow)]_vars =>
        <>[](Word(values) = Word(register - cleared))
=============================================================================
