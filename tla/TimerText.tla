------------------------------ MODULE TimerText ------------------------------
(***************************************************************************)
(* The list of timers as it is posted, "l60=on_off_switch;w41894=...", and *)
(* what user_platform_timer_first_start reads out of it (app/user/         *)
(* user_esp_platform_timer.c).  A text is a sequence of characters.        *)
(***************************************************************************)
EXTENDS Integers, Sequences, FiniteSets

CONSTANTS
    TIMER_NUMBER,    \* strings that have room: 10
    WAIT, ROOM     \* the longest time and action that are taken: 12 and 16

(* indexof, from the start to the end of the text.                         *)
indexof(text, c) == {i \in 1..Len(text) : text[i] = c}

(* What stands between the separators, empty strings too.                  *)
split(text, c) ==
    LET cuts   == {0, Len(text) + 1} \cup indexof(text, c)
        cut(j) == CHOOSE i \in cuts : Cardinality({k \in cuts : k < i}) = j
    IN  [j \in 1 .. Cardinality(cuts) - 1 |-> SubSeq(text, cut(j - 1) + 1, cut(j) - 1)]

NoTimer == [mode |-> "none", wait |-> <<>>, action |-> <<>>]

AtMost(text, room) == IF Len(text) <= room THEN text ELSE <<>>

(* One of the strings: f, l or w and the time, =, the action.              *)
Timer(str) ==
    LET parts == split(str, "=")
    IN  IF str = <<>> \/ str[1] \notin {"f", "l", "w"} THEN NoTimer
        ELSE [mode |-> str[1], wait |-> AtMost(Tail(parts[1]), WAIT),
              action |-> AtMost(parts[2], ROOM)]

(* More strings than there is room for are not modelled.                   *)
user_platform_timer_first_start(list) ==
    LET strings == split(list, ";")
    IN  IF Len(strings) > TIMER_NUMBER THEN <<>>
        ELSE [i \in DOMAIN strings |-> Timer(strings[i])]
=============================================================================
