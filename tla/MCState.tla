-------------------------------- MODULE MCState --------------------------------
(* The state requests drive, for TLC: the scenarios' lifecycle, the interfaces  *)
(* of a device and their counters, the optical alarms and episodes, and the     *)
(* names in the DNS zones.  Only the chosen part moves in a behaviour.          *)
EXTENDS ScenarioLifecycle, InterfaceState, CounterHold, Optical, DnsZone, TLC

CONSTANTS Foci, d1, d2

VARIABLE focus

mcVars == <<focus, vars, ifvars, holdvars, alarmVars, episodeVars, namesNow>>

\* Two scenarios that compete for two devices.
MCDevices == {d1, d2}
DeviceSymmetry == Permutations(MCDevices)
MCSelected == [s \in Scenarios |-> MCDevices]
MCExpect == [s \in Scenarios |-> s - 1]

\* 2 sits on 1, and 3 stands alone.
MCParent == <<0, 1, 0>>

\* 3 is an aggregate of 1 and 2, and 4 its child.
MCCounterParent == <<0, 0, 0, 3>>
MCMembers == <<{}, {}, {1, 2}, {}>>
MCRate == <<3, 2, 7, 0>>

\* Addresses that differ in one byte, two of them behind the more specific
\* reverse zone; names that sanitise to the same label, to the label limit, to
\* nothing, and to another device's fallback.
MCAddresses == {<<1, 0, 0, 1>>, <<1, 0, 0, 2>>, <<2, 0, 0, 1>>, <<1, 1, 0, 1>>}
As(n) == [i \in 1..n |-> "a"]
MCSysNames == {<<"A">>, <<"a", ".", ".", "0", "-", "1">>, As(11), <<"-", "_">>,
               <<"d", "e", "v", "-", "1", "-", "0", "-", "0", "-", "2">>,
               As(7) \o <<"b", "-">> \o As(4)}
MCReverseNets == {<<1>>, <<1, 0, 0>>}

MCInit == /\ Init /\ InterfaceInit /\ HoldInit /\ AlarmInit /\ EpisodeInit /\ ZoneInit
          /\ focus \in Foci
          /\ focus # "interfaces" => \A i \in Ifs : word[i].link = Up
          /\ focus # "counters" => watched = 4 /\ \A s \in Slots : own[s]
          /\ focus # "alarms" => signal = Threshold["SD"]

\* A device is replaced, and the subsystem stops, early on.
AlarmBound == /\ engines' = 2 => alarmClock' <= 9
              /\ stopped' => alarmClock' <= 2

MCNext ==
  /\ UNCHANGED focus
  /\ \/ focus = "scenarios" /\ Next /\ UNCHANGED <<ifvars, holdvars, alarmVars, episodeVars, namesNow>>
     \/ focus = "interfaces" /\ InterfaceNext /\ UNCHANGED <<vars, holdvars, alarmVars, episodeVars, namesNow>>
     \/ focus = "counters" /\ HoldNext /\ UNCHANGED <<vars, ifvars, alarmVars, episodeVars, namesNow>>
     \/ focus = "alarms" /\ AlarmNext /\ AlarmBound /\ UNCHANGED <<vars, ifvars, holdvars, episodeVars, namesNow>>
     \/ focus = "episodes" /\ EpisodeNext /\ UNCHANGED <<vars, ifvars, holdvars, alarmVars, namesNow>>
     \/ focus = "zones" /\ ZoneNext /\ UNCHANGED <<vars, ifvars, holdvars, alarmVars, episodeVars>>

MCSpec == MCInit /\ [][MCNext]_mcVars
================================================================================
