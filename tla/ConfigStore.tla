----------------------------- MODULE ConfigStore -----------------------------
(***************************************************************************)
(* The configuration that is kept twice (user/user_configstore.c): a save  *)
(* goes to the sector that does not hold the current one, with the next    *)
(* number; a load takes the later of those that are whole.  The file is    *)
(* part of the library and nothing of the plug calls it: who does is       *)
(* external, and may lose power at any moment.                             *)
(***************************************************************************)
EXTENDS Integers

CONSTANTS
    SEQ,        \* the numbers wrap there: 256
    Confs,      \* what a configuration may hold
    DefaultConf, \* what configLoadDefaults puts in
    SAVES       \* bound: saves and starts

ASSUME SeqAssumption == SEQ \in Nat /\ SEQ >= 4

VARIABLES
    sectors,    \* ESP_PARAM_SEC_A (0) and ESP_PARAM_SEC_B (1)
    myConfig,   \* the configuration in RAM
    confLoc,    \* the sector it came from
    saving,     \* the other sector is erased and not yet written
    saved,      \* history: what the last complete save has written
    saves

storevars == <<sectors, myConfig, confLoc, saving, saved, saves>>

(* A sector whose check sum is wrong: never written, erased, or cut off in *)
(* the middle (bound: one of 256 would pass the 8-bit sum).                *)
NotWhole == [whole |-> FALSE, seq |-> 0, value |-> DefaultConf]

Good(s) == sectors[s].whole

Written(conf) == [whole |-> TRUE, seq |-> conf.seq, value |-> conf.value]

StoreInit ==
    /\ sectors = [s \in {0, 1} |-> NotWhole]
    /\ myConfig = [seq |-> 0, value |-> DefaultConf] /\ confLoc = 1
    /\ saving = FALSE /\ saved = DefaultConf /\ saves = 0

Newer_compared == sectors[1].seq > sectors[0].seq    \* mutant: the numbers do not wrap

(* configLoad: is what is in B later than what is in A?                    *)
Newer == (sectors[1].seq - sectors[0].seq) % SEQ < SEQ \div 2

(* The sector that a load takes, -1 if none is whole.                      *)
Latest ==
    IF Good(0) THEN IF Good(1) /\ Newer THEN 1 ELSE 0
    ELSE IF Good(1) THEN 1 ELSE -1

Loaded == IF Latest = -1 THEN [seq |-> 0, value |-> DefaultConf]
          ELSE [seq |-> sectors[Latest].seq, value |-> sectors[Latest].value]

configLoad ==
    /\ myConfig' = Loaded
    /\ confLoc' = IF Latest = -1 THEN 1 ELSE Latest

Changes ==
    /\ ~saving
    /\ \E v \in Confs : myConfig' = [myConfig EXCEPT !.value = v]
    /\ UNCHANGED <<sectors, confLoc, saving, saved, saves>>

(* configSave: nothing to do, or erase... *)
Unchanged == Good(confLoc) /\ sectors[confLoc] = Written(myConfig)

configSave ==
    /\ ~saving /\ ~Unchanged /\ saves < SAVES
    /\ myConfig' = [myConfig EXCEPT !.seq = (@ + 1) % SEQ]
    /\ sectors' = [sectors EXCEPT ![1 - confLoc] = NotWhole]
    /\ saving' = TRUE /\ saves' = saves + 1
    /\ UNCHANGED <<confLoc, saved>>

(* ...and write. *)
SaveWrites ==
    /\ saving
    /\ sectors' = [sectors EXCEPT ![1 - confLoc] = Written(myConfig)]
    /\ confLoc' = 1 - confLoc
    /\ saving' = FALSE /\ saved' = myConfig.value
    /\ UNCHANGED <<myConfig, saves>>

(* Power is lost, perhaps in the middle of the write, or just behind it.   *)
PowerLost ==
    /\ saves < SAVES /\ saves' = saves + 1
    /\ configLoad
    /\ saving' = FALSE
    /\ UNCHANGED <<sectors, saved>>

Store == Changes \/ configSave \/ SaveWrites \/ PowerLost

StoreSpec == StoreInit /\ [][Store]_storevars

-----------------------------------------------------------------------------
(* Wherever the power goes off, what was saved last is what a start loads, *)
(* however often the numbers have wrapped.                                 *)
ConfigSurvives == Loaded.value = saved

(* To its users the pair of sectors is one value, saved at one instant:    *)
(* erasing the other sector, a number that wraps and a loss of power in    *)
(* between are not to be seen.                                             *)
Reg == INSTANCE Register WITH Values <- Confs, Default <- DefaultConf,
                              working <- myConfig.value, lasting <- Loaded.value

ImplementsRegister == Reg!Spec
=============================================================================
