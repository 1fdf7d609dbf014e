---------------------------- MODULE StationProofs ----------------------------
(***************************************************************************)
(* What Station promises of the interface's flag, for any reports and      *)
(* counts.                                                                 *)
(***************************************************************************)
EXTENDS Station, TLAPS

Places ==
    {"quiet", "start", "address", "got", "configure", "up", "dhcp",
     "down", "stop", "silence", "release", "downed"}

Usable == up /\ callback /\ dhcp \in {"asking", "bound"}

(* Without a link the flag is reset: the task that connects comes to rest  *)
(* only then, so that the flag does not outlive an interface which was     *)
(* started while that task took it down.                                   *)
LinkInv ==
    ~ link =>
        /\ ~ kept
        /\ tpc["wpas"] \in {"quiet", "down", "stop", "silence", "release", "downed"}
        /\ flag => tpc["wpas"] = "down"

(* While that task is at rest, what sta_ip_start has done so far lasts,    *)
(* unless it has come to rest with the link up.                            *)
BuildInv ==
    flag /\ ~ kept /\ tpc["app"] = "quiet" =>
        /\ tpc["wpas"] \in {"quiet", "start", "address", "got"} => Usable
        /\ tpc["wpas"] = "dhcp" => up /\ callback
        /\ tpc["wpas"] \notin {"stop", "silence", "release", "downed"}

FlagInv ==
    /\ tpc \in [Threads -> Places]
    /\ tpc["wpas"] \in {"down", "stop", "silence", "release", "downed"} => ~ link
    /\ LinkInv /\ BuildInv

(* No step of the two threads, of lwIP or of the reports breaks them.      *)
LEMMA FlagHolds == FlagInv /\ [NNext]_nvars => FlagInv'
  <1> SUFFICES ASSUME FlagInv, [NNext]_nvars PROVE FlagInv'
    OBVIOUS
  <1> USE DEF FlagInv, LinkInv, BuildInv, Usable, Threads, Places, AtStep, ThreadTo, joins
  <1>1. CASE \/ Poll \/ (\E v \in Reports : Report(v)) \/ Associated
             \/ mhdr_set_station_status_when_reconnect_over
    <2>1. UNCHANGED <<netif, joins, tpc>>
      BY <1>1 DEF Poll, PollTell, PollCount, PollNote, Report, Associated,
                  mhdr_set_station_status_when_reconnect_over
    <2>2. QED
      BY <2>1 DEF netif
  <1>2. CASE LinkUp
    BY <1>2 DEF LinkUp, netif
  <1>3. CASE IpStart
    BY <1>3 DEF IpStart
  <1>4. CASE IpStartAgain
    BY <1>4 DEF IpStartAgain, netif
  <1>5. CASE IpGot
    BY <1>5 DEF IpGot, netif
  <1>6. CASE Configure
    BY <1>6 DEF Configure
  <1>7. CASE ConfigureUp
    BY <1>7 DEF ConfigureUp
  <1>8. CASE ConfigureDhcp
    BY <1>8 DEF ConfigureDhcp
  <1>9. CASE DhcpBound \/ DhcpLost
    BY <1>9 DEF DhcpBound, DhcpLost
  <1>10. ASSUME NEW t \in Threads, IpDown(t) PROVE FlagInv'
    BY <1>10 DEF IpDown
  <1>11. ASSUME NEW t \in Threads, IpStop(t) PROVE FlagInv'
    BY <1>11 DEF IpStop
  <1>12. ASSUME NEW t \in Threads, IpSilence(t) PROVE FlagInv'
    BY <1>12 DEF IpSilence
  <1>13. ASSUME NEW t \in Threads, IpRelease(t) PROVE FlagInv'
    BY <1>13 DEF IpRelease
  <1>14. CASE LinkDown \/ LinkDowned
    BY <1>14 DEF LinkDown, LinkDowned, netif
  <1>15. CASE Connect
    BY <1>15 DEF Connect, netif
  <1>16. CASE Connecting
    BY <1>16 DEF Connecting, netif
  <1>17. CASE ConnectingRefused
    BY <1>17 DEF ConnectingRefused, netif
  <1>18. CASE UNCHANGED nvars
    BY <1>18 DEF nvars, netif
  <1>19. QED
    BY <1>1, <1>2, <1>3, <1>4, <1>5, <1>6, <1>7, <1>8, <1>9, <1>10, <1>11, <1>12, <1>13,
       <1>14, <1>15, <1>16, <1>17, <1>18 DEF NNext

(* sta_ip_start_flag says the truth whenever neither thread is at the      *)
(* interface, however sta_ip_start and sta_ip_down ran into each other,    *)
(* unless a connect was refused the disconnect of a link that is still up. *)
THEOREM FlagTellsTruth == NSpec => []IpFlagTruth
  <1>1. NInit => FlagInv
    BY DEF NInit, FlagInv, LinkInv, BuildInv, Threads, Places
  <1>2. FlagInv => IpFlagTruth
    BY DEF FlagInv, BuildInv, Usable, IpFlagTruth, AtStep, Threads
  <1>3. QED
    BY <1>1, <1>2, FlagHolds, PTL DEF NSpec
=============================================================================
