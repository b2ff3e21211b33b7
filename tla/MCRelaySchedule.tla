-------------------------- MODULE MCRelaySchedule --------------------------
(* Lists that mix the modes: timers due together, a wait of several "hours", *)
(* fixed timers that pass, texts that are no actions or end the callback.    *)
EXTENDS RelaySchedule

T(mode, at, action) == [mode |-> mode, at |-> at, action |-> action]

MCSchedules == {
    <<T("l", 3, "on_off_switch"), T("w", 4, "off_switch")>>,
    <<T("f", 5, "on_switch"), T("f", 3, "off_switch"), T("l", 5, "on_off_switch")>>,
    <<T("w", 3, "on_"), T("l", 4, "0"), T("f", 3, "")>>}
=============================================================================
