-------------------------- MODULE MCDatagateImport --------------------------
(***************************************************************************)
(* Instances of DatagateImport for TLC: one host with a udp and a tcp      *)
(* server of the same name, as DataGate lists them.                        *)
(***************************************************************************)
EXTENDS DatagateImport
CONSTANTS udp, tcp, i1, i2, c1, c2, c3, c4, c5, c6, p1, p2

MCServerList == <<udp, tcp>>
Server(name, proto, port) == [type |-> "openvpn", name |-> name, slug |-> name,
                              host |-> {"n1"}, port |-> port, proto |-> proto]
MCServerOf == (udp :> Server("oslo udp", "udp", 1194)) @@ (tcp :> Server("oslo tcp", "tcp", 443))
Text(words, says) == [words |-> words, says |-> says]
MCNameOf == ("oslo udp" :> Text({"oslo"}, "udp")) @@ ("oslo tcp" :> Text({"oslo"}, "tcp"))
            @@ ("home" :> Text({"home"}, None))
MCSlugOf == ("oslo udp" :> Text({"oslo", "dg1"}, "udp")) @@ ("oslo tcp" :> Text({"oslo", "dg2"}, "tcp"))
            @@ ("a" :> Text({"a"}, None)) @@ ("b" :> Text({"b"}, None))
MCFullSlugs == {"oslo tcp"}
MCConfigOf == "own" :> [host |-> {}, port |-> None, proto |-> None]
Own(name, slug, link, config) ==
  [type |-> "openvpn", name |-> name, slug |-> [base |-> slug, n |-> 1], link |-> link,
   cn |-> IF link = None THEN None ELSE <<link, p1>>, config |-> config]
\* None; one by hand; one that is linked; both, linked the wrong way round; both
\* linked to one server, as two imports at once leave them, the last one wrongly.
MCStarts == {<<>>,
             <<Own("oslo udp", "a", None, "own")>>,
             <<Own("oslo tcp", "a", tcp, tcp), Own("home", "b", None, udp)>>,
             <<Own("home", "a", udp, tcp), Own("home", "b", tcp, udp)>>,
             <<Own("oslo udp", "a", udp, udp), Own("home", "b", udp, tcp)>>}
MCRowIds == <<c1, c2, c3, c4, c5, c6>>
Flags(sync, refresh, create) == [sync |-> sync, refresh |-> refresh, create |-> create]
MCRequests == {Flags(TRUE, TRUE, TRUE), Flags(FALSE, FALSE, TRUE), Flags(TRUE, FALSE, FALSE)}
MCSymmetry == Permutations(Importers)
=============================================================================
