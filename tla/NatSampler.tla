------------------------------ MODULE NatSampler ------------------------------
(***************************************************************************)
(* nat::NatSampler: our addresses as remote nodes report them, counted per *)
(* host and per host and port, and the firewall class derived from the     *)
(* counts.  The class decides whether a node tries to become persistent    *)
(* (rpc.cpp, check_persistent) and what it offers in a holepunch.  The     *)
(* samplers of the socket and of a punching client's pool are instances.   *)
(***************************************************************************)
EXTENDS Lists, SequencesExt, FiniteSetsExt

CONSTANTS
  Hosts,       \* hosts under which we may be seen
  Ports,       \* ports under which we may be seen, 0 excluded
  Sources,     \* remote nodes that report
  Punchers,    \* addresses of clients that punch towards our server
  MaxVisited   \* MAX_VISITED

ASSUME NatAssumption == Ports \subseteq Nat \ {0} /\ MaxVisited \in Nat

Addresses == (Hosts \X Ports) \cup Punchers
HostsOf(S) == {a[1] : a \in S}

\* A class, as in peer_connect::FIREWALL_*; OPEN is never derived from samples.
Classes == {"unknown", "consistent", "random"}

VARIABLES
  visited,    \* visited_
  said,       \* history: the address that each visited source reported
  hostHits,   \* samples_host_: records of a host and its hits
  fullHits,   \* samples_full_: records of an address and its hits
  sampled,    \* sampled_
  frozen,     \* frozen_
  firewall,   \* firewall_
  offered     \* addresses_

samplerVars ==
  <<visited, said, hostHits, fullHits, sampled, frozen, firewall, offered>>

--------------------------------------------------------------------------------
(* Counting *)

\* add_sample raises the hits of entry i and lets it rise.  The loop compares
\* with `s`, a reference to slot i: from the second comparison on that slot
\* holds the former neighbour.  Rise(l, i) is where the entry comes to rest.
Rise_Stays(l, i) == i
Rise(l, i) ==
  Min({t \in 1 .. i :
         \A k \in t + 1 .. i :
           l[k - 1].hits < IF k = i THEN l[i].hits + 1 ELSE l[i - 1].hits})

AddSample(l, x) ==
  IF \E i \in DOMAIN l : l[i].of = x
  THEN LET i == CHOOSE k \in DOMAIN l : l[k].of = x
           t == Rise(l, i)
           raised == [l EXCEPT ![i].hits = @ + 1]
       IN  [k \in DOMAIN l |-> raised[IF k = t THEN i
                                      ELSE IF k \in t + 1 .. i THEN k - 1 ELSE k]]
  ELSE Append(l, [of |-> x, hits |-> 1])

--------------------------------------------------------------------------------
(* Classification *)

\* update_firewall, the ladder; `old` is kept when no rung applies.
UpdateFirewall(hosts, full, n, old) ==
  IF n < 3 THEN old
  ELSE IF full[1].hits >= 3 THEN "consistent"
  ELSE IF full[1].hits = 1 THEN "random"
  ELSE IF Len(hosts) = 1 /\ n > 3 THEN "random"
  ELSE IF Len(hosts) > 1 /\ Len(full) > 1 /\ full[2].hits > 1 THEN "consistent"
  ELSE IF n > 4 THEN "random"
  ELSE old

\* update_addresses: our host with port 0 if the port is unpredictable, else at
\* most four addresses, the first two whatever their hits.
Offer_Stale(class, hosts, full) == <<full[1].of>>
Offer(class, hosts, full) ==
  CASE class = "unknown" -> <<>>
    [] class = "random" -> <<<<hosts[1].of, 0>>>>
    [] class = "consistent" ->
         LET kept == Only(full, {i \in DOMAIN full : i <= 2 \/ full[i].hits >= 2})
         IN  [i \in 1 .. Min({Len(kept), 4}) |-> kept[i].of]

--------------------------------------------------------------------------------
(* Operations *)

MayUpdate == ~frozen

\* add: the node `from` saw us as `a`; what the same node said before and what
\* exceeds MAX_VISITED is ignored.  host_ and port_ are the head of fullHits.
New(from) == from \notin visited /\ Cardinality(visited) < MaxVisited

Sample(from, a) ==
  /\ visited' = visited \cup {from}
  /\ said' = [s \in visited' |-> IF s = from THEN a ELSE said[s]]
  /\ hostHits' = AddSample(hostHits, a[1])
  /\ fullHits' = AddSample(fullHits, a)
  /\ sampled' = sampled + 1
  /\ IF sampled' >= 3 /\ MayUpdate
     THEN /\ firewall' = UpdateFirewall(hostHits', fullHits', sampled', firewall)
          /\ offered' = Offer(firewall', hostHits', fullHits')
     ELSE UNCHANGED <<firewall, offered>>

\* An answer names the address under which its sender saw us.
Add(from, a) == New(from) /\ Sample(from, a) /\ UNCHANGED frozen

\* The server gets a holepunch message of client c: it adds a sample, in which
\* both arguments are the client's address, and freezes a class that is known
\* before it answers.
HolepunchRequest(c) ==
  /\ IF New(c) THEN Sample(c, c)
     ELSE UNCHANGED <<visited, said, hostHits, fullHits, sampled, firewall, offered>>
  /\ frozen' = (frozen \/ firewall' # "unknown")

\* The client freezes its pool's sampler before the second round, whatever it says.
Freeze ==
  /\ frozen' = TRUE
  /\ UNCHANGED <<visited, said, hostHits, fullHits, sampled, firewall, offered>>

Unfreeze ==
  /\ frozen
  /\ frozen' = FALSE
  /\ firewall' = UpdateFirewall(hostHits, fullHits, sampled, firewall)
  /\ offered' = Offer(firewall', hostHits, fullHits)
  /\ UNCHANGED <<visited, said, hostHits, fullHits, sampled>>

SamplerInit ==
  /\ visited = {}
  /\ said = <<>>
  /\ hostHits = <<>> /\ fullHits = <<>>
  /\ sampled = 0
  /\ frozen = FALSE
  /\ firewall = "unknown"
  /\ offered = <<>>

SamplerNext ==
  \/ \E from \in Sources, a \in Hosts \X Ports : Add(from, a)
  \/ \E c \in Punchers : HolepunchRequest(c)
  \/ Freeze \/ Unfreeze

SamplerSpec == SamplerInit /\ [][SamplerNext]_samplerVars

--------------------------------------------------------------------------------
(* Properties *)

Samples(S) == [of : S, hits : Nat \ {0}]

SamplerTypeOK ==
  /\ visited \subseteq Sources \cup Punchers
  /\ said \in [visited -> Addresses]
  /\ hostHits \in Seq(Samples(HostsOf(Addresses)))
  /\ fullHits \in Seq(Samples(Addresses))
  /\ sampled \in Nat
  /\ frozen \in BOOLEAN
  /\ firewall \in Classes
  /\ offered \in Seq(Addresses \cup (HostsOf(Addresses) \X {0}))

\* A list counts the reports: one entry for what was reported, with as many hits
\* as sources reported it.
Counts(list, report) ==
  /\ \A s \in DOMAIN report : \E i \in DOMAIN list : list[i].of = report[s]
  /\ \A i \in DOMAIN list :
       list[i].hits = Cardinality({s \in DOMAIN report : report[s] = list[i].of})
  /\ \A i, j \in DOMAIN list : list[i].of = list[j].of => i = j

\* Every source counts once, in both lists, although the entries change places.
HitsAccounted ==
  /\ sampled = Cardinality(visited)
  /\ Counts(fullHits, said)
  /\ Counts(hostHits, [s \in visited |-> said[s][1]])

\* A class is never taken from fewer than three samples, and "consistent" (try to
\* become persistent) never without an address that two sources agree on.
ClassHasEvidence ==
  /\ firewall # "unknown" => sampled >= 3
  /\ firewall = "consistent" => \E i \in DOMAIN fullHits : fullHits[i].hits >= 2

\* The ladder has no gap: after five samples an unfrozen class is decided.
LadderDecides == sampled > 4 /\ ~frozen => firewall # "unknown"

\* What the order of the samples cannot hide: an address that more than half of the
\* sources report heads the list although the list is not sorted, and with more than
\* three samples an unfrozen class says so.  No more holds of the order.  add_sample
\* is to "maintain descending sort by hits" and the ladder takes the head for the
\* address with most hits, but reports of A, B, C, D, D, D leave the hits 1, 3, 1, 1
\* and the class random: with half of the reports D stops below the head.
MajorityWins ==
  \A i \in DOMAIN fullHits :
    2 * fullHits[i].hits > sampled =>
      i = 1 /\ (sampled > 3 /\ ~frozen => firewall = "consistent")

\* The lists count every source once; a class rests on evidence, is decided after
\* five samples, and follows a majority in whatever order the samples came.
SamplerInv ==
  SamplerTypeOK /\ HitsAccounted /\ ClassHasEvidence /\ LadderDecides /\ MajorityWins

\* What a holepunch offers fits the class: no port when it is unpredictable,
\* else one to four seen addresses, also while the class is frozen and the
\* counts move on.
OfferFits ==
  /\ firewall = "unknown" <=> offered = <<>>
  /\ firewall = "random" => \E h \in HostsOf(Addresses) : offered = <<<<h, 0>>>>
  /\ firewall = "consistent" =>
       Len(offered) <= 4 /\ Range(offered) \subseteq {fullHits[i].of : i \in DOMAIN fullHits}
===============================================================================
