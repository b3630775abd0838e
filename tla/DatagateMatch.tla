---------------------------- MODULE DatagateMatch ----------------------------
(***************************************************************************)
(* matcher.py: which component of a project stands for which server of     *)
(* DataGate.  Pure: operators on records, no state.                        *)
(*                                                                         *)
(* A server, and a component as _to_local reads it, is a record            *)
(*   [type, words, slugWords, says, host, port, proto, link]               *)
(* where words is the set of words normalize_name leaves of the name (a    *)
(* server has no slug and no link), says is the proto the name or the slug *)
(* spells out, host the set of labels of the host, and proto, host and     *)
(* port are what parse_ovpn_endpoint finds in the config or enrich_server  *)
(* in the export template.  A substring of a name or host is a subset.     *)
(***************************************************************************)
EXTENDS Integers, Sequences, FiniteSets, SequencesExt, Sorting

CONSTANTS None

\* Scores are multiples of 1/12 here, so that the shares of common words are exact.
Points(n) == 12 * n
MatchThreshold == Points(40)

Within(a, b) == a \subseteq b \/ b \subseteq a

\* server_proto and local_proto
ProtoOf(x) == IF x.proto \in {"tcp", "udp"} THEN x.proto ELSE x.says

\* The two known protocols of an OpenVPN pair differ.
CrossLinked(s, c) == /\ s.type = "openvpn"
                     /\ None \notin {ProtoOf(s), ProtoOf(c)}
                     /\ ProtoOf(s) # ProtoOf(c)

NameScore(s, c) ==
  LET all == s.words \cup c.words \cup c.slugWords
      common == s.words \cap (c.words \cup c.slugWords)
  IN IF {} \in {s.words, c.words} THEN 0
     ELSE IF s.words \in {c.words, c.slugWords} THEN Points(50)
     ELSE IF Within(s.words, c.words) \/ Within(s.words, c.slugWords) THEN Points(35)
     ELSE (Points(25) * Cardinality(common)) \div Cardinality(all)

HostsKnown(s, c) == {} \notin {s.host, c.host}
EndpointMatch(s, c) == HostsKnown(s, c) /\ Within(s.host, c.host)
HostScore(s, c) ==
  IF ~EndpointMatch(s, c) THEN 0
  ELSE IF s.host # c.host THEN Points(15)
  ELSE IF s.port = None \/ s.port # c.port THEN Points(40)
  ELSE Points(55)

ProtoScore(s, c) ==
  IF s.type = "openvpn" /\ ProtoOf(s) # None /\ ProtoOf(s) = ProtoOf(c) THEN Points(20) ELSE 0

\* score_pair: 0 is incompatible.
ScorePair(s, c) == IF s.type # c.type \/ CrossLinked(s, c) THEN 0
                   ELSE NameScore(s, c) + HostScore(s, c) + ProtoScore(s, c)
Compatible(s, c) == ScorePair(s, c) >= MatchThreshold

-----------------------------------------------------------------------------
(***************************************************************************)
(* match_servers.  servers and components are functions from ids to        *)
(* records, batch and order the sequences of ids in which the lists hold   *)
(* them.  MatchServers is the list of [server, component, linked].         *)
(***************************************************************************)
UsedServers(ms) == {ms[k].server : k \in DOMAIN ms}
UsedComponents(ms) == {ms[k].component : k \in DOMAIN ms}

\* by_dg_id: of several components linked to one server the last one.
Holder(order, components, s) ==
  LET linked == {k \in DOMAIN order : components[order[k]].link = s}
  IN IF linked = {} THEN None ELSE order[Max(linked)]

KeptAs(order, components, held) ==
  [k \in DOMAIN held |->
     [server |-> held[k], component |-> Holder(order, components, held[k]), linked |-> TRUE]]

Keeps(servers, components, order, s) ==
  LET c == Holder(order, components, s)
  IN c # None /\ Compatible(servers[s], components[c])

\* 1) Existing links that are still compatible.
KeptLinks(servers, batch, components, order) ==
  KeptAs(order, components, Only(batch, {s \in ToSet(batch) : Keeps(servers, components, order, s)}))

\* Mutant: a component linked outside of the batch may be taken.
AvailableToAll(c, components, batch, ms) == c \notin UsedComponents(ms)

\* _component_available
Available(c, components, batch, ms) ==
  /\ c \notin UsedComponents(ms)
  /\ \/ components[c].link = None
     \/ components[c].link \in ToSet(batch) \ UsedServers(ms)

Before(p, q, exact, score) ==
  IF p \in exact <=> q \in exact
  THEN \/ score[p] > score[q]
       \/ score[p] = score[q] /\ (p[1] < q[1] \/ (p[1] = q[1] /\ p[2] < q[2]))
  ELSE p \in exact
Precedence(pairs, exact, score) == {pq \in pairs \X pairs : Before(pq[1], pq[2], exact, score)}

\* Both candidate lists in the order _consume looks at them: pairs with a
\* matching endpoint and 70 points first, then by score, then in list order.
Candidates(servers, batch, components, order, kept) ==
  LET pairs == {p \in (DOMAIN batch) \X (DOMAIN order) :
                  /\ batch[p[1]] \notin UsedServers(kept)
                  /\ Available(order[p[2]], components, batch, kept)
                  /\ Compatible(servers[batch[p[1]]], components[order[p[2]]])}
      score == [p \in pairs |-> ScorePair(servers[batch[p[1]]], components[order[p[2]]])]
      exact == {p \in pairs : /\ EndpointMatch(servers[batch[p[1]]], components[order[p[2]]])
                              /\ score[p] >= Points(70)}
  IN Sorted(pairs, Precedence(pairs, exact, score))

\* 2) _consume: the candidates one after the other, each if both sides are free.
Consumed(ms, p, batch, components, order) ==
  IF batch[p[1]] \in UsedServers(ms) \/ ~Available(order[p[2]], components, batch, ms)
  THEN ms
  ELSE Append(ms, [server |-> batch[p[1]], component |-> order[p[2]], linked |-> FALSE])
Consume(kept, candidates, batch, components, order) ==
  FoldLeft(LAMBDA ms, p : Consumed(ms, p, batch, components, order), kept, candidates)

MatchServers(servers, batch, components, order) ==
  LET kept == KeptLinks(servers, batch, components, order)
  IN Consume(kept, Candidates(servers, batch, components, order, kept), batch, components, order)
=============================================================================
