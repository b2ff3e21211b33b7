---------------------------- MODULE PlatformParam ----------------------------
(***************************************************************************)
(* esp_param, the parameters of the platform (user/user_esp_platform.c):   *)
(* the token that wifi_station_set finds in a command, with two flags, in  *)
(* RAM and in the flash.  Who reads the token, and who clears the flags,   *)
(* is external: the plug does neither, the other products do.              *)
(***************************************************************************)
EXTENDS Integers, Sequences

CONSTANTS
    Tokens,      \* what a command may hold
    ROOM_TOKEN,  \* the characters of a token that are kept: 40
    TOKENS       \* bound: tokens, flags and starts

ASSUME TokenAssumption == ROOM_TOKEN \in Nat /\ Tokens \subseteq Seq(STRING)

VARIABLES
    esp_param,   \* the parameters in RAM
    espFlash,    \* in the flash, written whole or not at all (module Parameters)
    changing,    \* between a change and its system_param_save_with_protect
    given        \* history: the tokens that were saved, and how often anything was done

paramvars == <<esp_param, espFlash, changing, given>>

Blank == "none"
Fresh == [activeflag |-> 0, tokenrdy |-> 0, token |-> [i \in 1..ROOM_TOKEN |-> Blank]]

ParamInit ==
    /\ esp_param = Fresh /\ espFlash = Fresh
    /\ changing = <<>>
    /\ given = [tokens |-> <<>>, times |-> 0]

(* The characters are copied over those of the former token.               *)
Copied(token) ==
    [i \in 1..ROOM_TOKEN |-> IF i <= Len(token) THEN token[i] ELSE esp_param.token[i]]

Changed(param, tokens) ==
    /\ changing = <<>> /\ given.times < TOKENS
    /\ esp_param' = param
    /\ changing' = <<tokens>>
    /\ given' = [given EXCEPT !.times = @ + 1]
    /\ UNCHANGED espFlash

user_esp_platform_set_token(token) ==
    Changed([activeflag |-> 0, tokenrdy |-> 1,
             token |-> IF Len(token) <= ROOM_TOKEN THEN Copied(token) ELSE esp_param.token],
            Append(given.tokens, token))

user_esp_platform_set_active(activeflag) ==
    Changed([esp_param EXCEPT !.activeflag = activeflag,
                              !.tokenrdy = IF activeflag = 0 THEN 0 ELSE @],
            given.tokens)

SaveParam ==
    /\ changing # <<>> /\ changing' = <<>>
    /\ espFlash' = esp_param
    /\ given' = [given EXCEPT !.tokens = changing[1]]
    /\ UNCHANGED esp_param

(* A start.  What it reads out of the memory of the clock, the reason of   *)
(* the restart and user_boot_flag, is printed or read by nobody.           *)
user_esp_platform_param_recover ==
    /\ given.times < TOKENS /\ given' = [given EXCEPT !.times = @ + 1]
    /\ esp_param' = espFlash
    /\ changing' = <<>>
    /\ UNCHANGED espFlash

user_esp_platform_get_token == esp_param.token

Param ==
    \/ \E token \in Tokens : user_esp_platform_set_token(token)
    \/ \E flag \in 0..1 : user_esp_platform_set_active(flag)
    \/ SaveParam \/ user_esp_platform_param_recover

-----------------------------------------------------------------------------
(* Every character is that of the last token that was saved, fit, and was  *)
(* long enough to reach it: no start, and no token that does not fit,      *)
(* takes one away or brings an older one back.                             *)
Reaches(token, i) == Len(token) \in i..ROOM_TOKEN

IsLast(char, tokens, i) ==
    \/ /\ \A j \in 1..Len(tokens) : ~Reaches(tokens[j], i)
       /\ char = Blank
    \/ \E j \in 1..Len(tokens) :
          /\ Reaches(tokens[j], i) /\ char = tokens[j][i]
          /\ \A k \in j + 1 .. Len(tokens) : ~Reaches(tokens[k], i)

HoldsLast(token, tokens) == \A i \in 1..ROOM_TOKEN : IsLast(token[i], tokens, i)

TokenSurvives ==
    /\ HoldsLast(espFlash.token, given.tokens)
    /\ changing = <<>> => HoldsLast(user_esp_platform_get_token, given.tokens)
=============================================================================
