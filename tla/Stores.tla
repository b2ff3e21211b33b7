-------------------------------- MODULE Stores --------------------------------
(***************************************************************************)
(* The two stores beside the parameters of the socket (Parameters): the    *)
(* configuration kept twice and the parameters of the platform.  They      *)
(* share nothing; each has sectors of its own.                             *)
(***************************************************************************)
EXTENDS ConfigStore, PlatformParam

StoresInit == StoreInit /\ ParamInit

ConfigStep == Store /\ UNCHANGED paramvars
ParamStep  == Param /\ UNCHANGED storevars

StoresNext == ConfigStep \/ ParamStep

StoresSpec == StoresInit /\ [][StoresNext]_<<storevars, paramvars>>

(* What was saved last is what a start loads: the configuration, which is  *)
(* saved at one instant or not at all, and the token of the platform.      *)
StoreSurvives == ImplementsRegister /\ [](ConfigSurvives /\ TokenSurvives)
===============================================================================
