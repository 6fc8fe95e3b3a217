------------------------ MODULE MCSettingsScheduler ------------------------
(* Two sections; automation.yaml with every way a reload may raise, with   *)
(* schedules that build and that do not, and with a time zone, an hour, a  *)
(* switch and a schedule taken from the environment.                       *)
EXTENDS SettingsScheduler

CONSTANTS utc, six, daily, blank   \* a zone, an hour, a crontab, the empty string

MCSections     == {"automation", "notifications"}
MCRank         == [automation |-> 0, notifications |-> 1]
MCLiterals     == {utc, six, daily, blank}
MCTexts        == {daily}
MCEnvironments == {utc, six}
MCTruthy       == {utc, six, daily}
MCZones        == {utc, blank}
MCHours        == {six}
MCCrontabs     == {daily}

Asks(enabled, zone, hour, schedules) ==
  [enabled |-> enabled, zone |-> zone, hour |-> hour, schedules |-> schedules]

MCAutomations ==
  {Asks(blank, utc, six, <<daily>>),
   Asks(utc, Placeholder, six, <<Placeholder, daily>>),
   Asks(Placeholder, six, six, <<daily, "interval">>),
   Asks(utc, utc, Placeholder, <<"interval">>),
   Asks(utc, utc, six, Null)}
=============================================================================
