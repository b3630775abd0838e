--------------------------- MODULE DatagateImport ---------------------------
(***************************************************************************)
(* Importing the servers of DataGate as components of one project          *)
(* (datagate/import_service.py, datagate/client.py), with the operators'   *)
(* edits of the same rows (catalog_service.py) beside it.                  *)
(*                                                                         *)
(* An import asks DataGate for its servers, reads the components once,     *)
(* matches them, and then spends minutes on one file after the other.      *)
(* What it writes becomes visible at its only commit.  A session writes    *)
(* the columns it changed, so a row another request has changed meanwhile  *)
(* keeps the other columns.  autoflush is off, and the row locks a flush   *)
(* holds until the commit are left out: they only rule orders out.         *)
(***************************************************************************)
EXTENDS DatagateMatch

CONSTANTS Importers,    \* requests of POST /import that may be under way at once
          ServerList,   \* the servers of DataGate, in the order it lists them
          ServerOf,     \* per server: type, name, slug, host, port, proto
          NameOf,       \* per name: its words and the proto it says
          SlugOf,       \* the same per slug without its number
          FullSlugs,    \* slugs of 100 characters: no number fits behind them
          ConfigOf,     \* per config of an operator's own: host, port, proto
          RowIds,       \* sequence: components in the order _vpn_components lists them
          CnPrefixes,   \* values of monitor_cn_prefix
          Starts,       \* sequences of components an import may find
          Requests,     \* the flags [sync, refresh, create] a request may have
          MaxEvents,    \* bound: requests and edits together
          MaxEdits, MaxFaults   \* bounds: edits alone, failing calls to DataGate

Servers == ToSet(ServerList)
Ids == ToSet(RowIds)
CommonNames == Servers \X CnPrefixes    \* monitor_common_name

ASSUME ListAssumption == /\ ServerList \in Seq(Servers) /\ IsInjective(ServerList)
                         /\ RowIds \in Seq(Ids) /\ IsInjective(RowIds)
ASSUME WordsAssumption == /\ \A n \in DOMAIN NameOf : IsFiniteSet(NameOf[n].words)
                          /\ \A n \in DOMAIN SlugOf : IsFiniteSet(SlugOf[n].words)
ASSUME ServerAssumption ==
  \A s \in Servers : /\ ServerOf[s].type \in {"openvpn", "xray"}
                     /\ ServerOf[s].name \in DOMAIN NameOf /\ ServerOf[s].slug \in DOMAIN SlugOf
ASSUME RequestAssumption == /\ Requests # {} /\ Requests \subseteq [sync : BOOLEAN, refresh : BOOLEAN, create : BOOLEAN]
                            /\ CnPrefixes # {}
ASSUME BoundsAssumption == {MaxEvents, MaxEdits, MaxFaults} \subseteq Nat /\ IsFiniteSet(Importers)

VARIABLES row,           \* table monitored_components
          integration,   \* the project's row of datagate_integrations
          files,         \* DataGate's side: the client files per common name
          imp,           \* per importer: where it is and what it holds
          raced,         \* common names two imports were about to issue at once (history)
          spent          \* requests, edits and faults so far, and the rows ever used
vars == <<row, integration, files, imp, raced, spent>>

Slugs == [base : DOMAIN SlugOf, n : Nat]
Rows == [type : {"openvpn", "xray", "http_status"}, name : DOMAIN NameOf, slug : Slugs,
         link : Servers \cup {None}, cn : CommonNames \cup {None},
         config : Servers \cup DOMAIN ConfigOf]
ASSUME StartAssumption == \A start \in Starts : start \in Seq(Rows) /\ Len(start) <= Len(RowIds)
ASSUME NoneAssumption == None \notin Servers \cup Ids \cup CommonNames \cup Rows \cup Slugs
Jobs == [server : Servers, component : Ids \cup {None}]
Places == {"idle", "list", "link", "byCn", "files", "byId", "issue", "fetch",
           "slug", "spin", "insert", "commit"}

Resting == [pc |-> "idle", req |-> CHOOSE r \in Requests : TRUE, prefix |-> CHOOSE p \in CnPrefixes : TRUE,
            batch |-> <<>>, read |-> <<>>, work |-> <<>>, pend |-> <<>>, inserts |-> <<>>,
            reserved |-> {}, slug |-> None, stale |-> FALSE]

Rest(i) == imp' = [imp EXCEPT ![i] = Resting]
\* Ids no row has had yet: a new row is listed behind the others.
FreeIds == SubSeq(RowIds, spent.rows + 1, Len(RowIds))
\* bound: an id is left for one more insert beside those not committed yet
Pending == UNION {{i} \X DOMAIN imp[i].inserts : i \in Importers}
Room == Len(FreeIds) > Cardinality(Pending)
Existing == {c \in Ids : row[c] # None}
TakenSlugs == {row[c].slug : c \in Existing}
Inserting(i) == {imp[i].inserts[k].slug : k \in DOMAIN imp[i].inserts}

\* _to_local, with the endpoint parse_ovpn_endpoint reads from the config.
Local(r) ==
  LET name == NameOf[r.name]
      slug == SlugOf[r.slug.base]
      from == IF r.config \in Servers THEN ServerOf[r.config] ELSE ConfigOf[r.config]
  IN [type |-> r.type, words |-> name.words, slugWords |-> slug.words,
      says |-> IF name.says # None THEN name.says ELSE slug.says,
      host |-> from.host, port |-> from.port, proto |-> from.proto, link |-> r.link]

\* What enrich_server makes of an item of the list.
Remote(s) == LET of == ServerOf[s]
             IN [type |-> of.type, words |-> NameOf[of.name].words, says |-> NameOf[of.name].says,
                 host |-> of.host, port |-> of.port, proto |-> of.proto]
Remotes == [s \in Servers |-> Remote(s)]

\* _vpn_components
VpnRows == {c \in Existing : row[c].type \in {"openvpn", "xray"}}

-----------------------------------------------------------------------------
(* The jobs of an import: the matched pairs, then the new servers.         *)

PcOf(work, req) == IF work = <<>> THEN "commit"
                   ELSE IF Head(work).component # None /\ ~req.refresh THEN "link"
                   ELSE "byCn"
At(i, pc) == imp[i].pc = pc
Job(i) == Head(imp[i].work)
Cn(i) == <<Job(i).server, imp[i].prefix>>
Goto(i, pc) == imp' = [imp EXCEPT ![i].pc = pc]

\* Mutant: the job stays at the head.
FinishedKeepsJob(im) == [im EXCEPT !.pc = PcOf(Tail(im.work), im.req), !.slug = None]

\* The importer's record once the job at the head is done.
Finished(im) == [im EXCEPT !.work = Tail(@), !.pc = PcOf(Tail(im.work), im.req), !.slug = None]

NextJob(i) == imp' = [imp EXCEPT ![i] = Finished(@)]

\* The columns the loop over the matched pairs assigns.
Assigned(im, file) ==
  LET job == Head(im.work)
      was == im.read[job.component]
      cn == <<job.server, im.prefix>>
  IN [was EXCEPT !.name = IF im.req.sync THEN ServerOf[job.server].name ELSE @,
                 !.link = job.server,
                 !.config = IF file THEN job.server ELSE @,
                 !.cn = IF file \/ @ = None THEN cn ELSE @]
With(pend, c, r) == [d \in DOMAIN pend \cup {c} |-> IF d = c THEN r ELSE pend[d]]
Assigning(im, file) == [im EXCEPT !.pend = With(@, Head(im.work).component, Assigned(im, file))]
AssignColumns(i, file) == imp' = [imp EXCEPT ![i] = Finished(Assigning(@, file))]

\* A file is there: a matched component takes it, a new server needs a slug next.
TakeFile(i) == IF Job(i).component = None THEN Goto(i, "slug") ELSE AssignColumns(i, TRUE)

\* DataGateApiError in a job: the component is refreshed, which raises when it is gone.
JobFails(i) == IF Job(i).component \notin Existing \cup {None} THEN Rest(i) ELSE NextJob(i)

\* An exception nothing catches, httpx's own among them: 500 and no commit.
Aborts(i) == Rest(i)

Events == spent.requests + spent.edits
Fault == spent.faults < MaxFaults /\ spent' = [spent EXCEPT !.faults = @ + 1]
NoFault == UNCHANGED spent
\* A request to DataGate fails: an error answer, or no answer at all.
CallFails(i) == Fault /\ (JobFails(i) \/ Aborts(i))

-----------------------------------------------------------------------------
(* The steps of import_servers.                                            *)

Request(i) ==
  /\ At(i, "idle") /\ integration.enabled /\ Events < MaxEvents
  /\ \E req \in Requests :
       imp' = [imp EXCEPT ![i] = [Resting EXCEPT !.pc = "list", !.req = req, !.prefix = integration.prefix]]
  /\ spent' = [spent EXCEPT !.requests = @ + 1]
  /\ UNCHANGED <<row, integration, files, raced>>

Locals(read) == [c \in DOMAIN read |-> Local(read[c])]
Match(batch, read) == MatchServers(Remotes, batch, Locals(read), Only(RowIds, DOMAIN read))

\* The jobs: the matched pairs, then the servers of the batch that are left.
WorkFor(batch, read, create) ==
  LET ms == Match(batch, read)
      matched == [k \in DOMAIN ms |-> [server |-> ms[k].server, component |-> ms[k].component]]
      left == Only(batch, ToSet(batch) \ UsedServers(ms))
      new == [k \in DOMAIN left |-> [server |-> left[k], component |-> None]]
  IN matched \o (IF create THEN new ELSE <<>>)

Planned(im, batch, read, work) ==
  [im EXCEPT !.batch = batch, !.read = read, !.work = work, !.reserved = {read[c].slug : c \in DOMAIN read},
             !.pc = PcOf(work, im.req)]

\* The list with every server's export config, then the components and the
\* match.  Disabled and unselected servers are left out of the batch.
Batch(listed) == Only(ServerList, listed)
List(i) ==
  /\ At(i, "list")
  /\ \/ Fault /\ Rest(i)    \* 502
     \/ /\ NoFault
        /\ \E listed \in SUBSET Servers :
             LET batch == Batch(listed)
                 read == [c \in VpnRows |-> row[c]]
                 work == WorkFor(batch, read, imp[i].req.create)
             IN imp' = [imp EXCEPT ![i] = Planned(@, batch, read, work)]
  /\ UNCHANGED <<row, integration, files, raced>>

\* A matched pair without refresh_configs.
Link(i) == /\ At(i, "link") /\ AssignColumns(i, FALSE)
           /\ UNCHANGED <<row, integration, files, raced, spent>>

\* ensure_config_text: download_by_cn.  404 and 400 alone lead on to the list.
DownloadByCn(i) ==
  /\ At(i, "byCn")
  /\ \/ /\ NoFault
        /\ \/ (files[Cn(i)].live > 0 \/ files[Cn(i)].revoked) /\ TakeFile(i)
           \/ files[Cn(i)].live = 0 /\ Goto(i, "files")
     \/ Fault /\ Goto(i, "files")    \* 400 for a file that is there
     \/ CallFails(i)
  /\ UNCHANGED <<row, integration, files, raced>>

\* Mutant: a missing file is issued at once.
ListIssuedFilesSkipped(i) ==
  /\ At(i, "files") /\ Goto(i, "issue") /\ NoFault
  /\ UNCHANGED <<row, integration, files, raced>>

\* list_issued_files
ListIssuedFiles(i) ==
  /\ At(i, "files")
  /\ \/ NoFault /\ Goto(i, IF files[Cn(i)].live > 0 THEN "byId" ELSE "issue")
     \/ CallFails(i)
  /\ UNCHANGED <<row, integration, files, raced>>

DownloadById(i) == /\ At(i, "byId")
                   /\ (NoFault /\ TakeFile(i)) \/ CallFails(i)
                   /\ UNCHANGED <<row, integration, files, raced>>

IssuedNow(i) ==
  /\ files' = [files EXCEPT ![Cn(i)].live = @ + 1]
  /\ raced' = IF \E j \in Importers \ {i} : At(j, "issue") /\ Cn(j) = Cn(i)
              THEN raced \cup {Cn(i)} ELSE raced

\* issue_file: an answer that is lost may have issued the file all the same.
IssueFile(i) ==
  /\ At(i, "issue")
  /\ \/ NoFault /\ IssuedNow(i) /\ Goto(i, "fetch")
     \/ CallFails(i) /\ (IssuedNow(i) \/ UNCHANGED <<files, raced>>)
  /\ UNCHANGED <<row, integration>>

\* download_by_id of the issued file and, should that fail, download_by_cn.
Fetch(i) == /\ At(i, "fetch")
            /\ (NoFault /\ TakeFile(i)) \/ CallFails(i)
            /\ UNCHANGED <<row, integration, files, raced>>

\* _unique_slug: the base alone, or with the first free number.  A base of
\* full length is cut back to itself for every number: None, no slug is ever free.
FreeSlug(base, taken) ==
  LET numbers == {n \in 1..(Cardinality(taken) + 1) : [base |-> base, n |-> n] \notin taken}
  IN IF base \in FullSlugs /\ 1 \notin numbers THEN None
     ELSE [base |-> base, n |-> Min(numbers)]

WithSlug(im, slug) == IF slug = None THEN [im EXCEPT !.slug = None, !.pc = "spin"]
                      ELSE [im EXCEPT !.slug = slug, !.pc = "insert", !.reserved = @ \cup {slug}]
PickSlug(i) ==
  /\ At(i, "slug")
  /\ LET slug == FreeSlug(ServerOf[Job(i).server].slug, TakenSlugs \cup imp[i].reserved)
     IN imp' = [imp EXCEPT ![i] = WithSlug(@, slug)]
  /\ UNCHANGED <<row, integration, files, raced, spent>>

Created(i) == [type |-> ServerOf[Job(i).server].type, name |-> ServerOf[Job(i).server].name,
               slug |-> imp[i].slug, link |-> Job(i).server, cn |-> Cn(i), config |-> Job(i).server]

Refused(im) == [im EXCEPT !.reserved = @ \ {im.slug}]
Flushed(im, new) == [im EXCEPT !.inserts = Append(@, new)]

\* The flush inside the savepoint.  The unique index makes it wait for an
\* insert of the same slug that is not committed yet; a committed one is an
\* IntegrityError, and the item an error.
Insert(i) ==
  /\ At(i, "insert")
  /\ \A j \in Importers \ {i} : imp[i].slug \notin Inserting(j)
  /\ IF imp[i].slug \in TakenSlugs
     THEN imp' = [imp EXCEPT ![i] = Finished(Refused(@))]
     ELSE /\ Room    \* bound: rows
          /\ imp' = [imp EXCEPT ![i] = Finished(Flushed(@, Created(i)))]
  /\ UNCHANGED <<row, integration, files, raced, spent>>

\* The columns an UPDATE names are those that differ from what was read.
Written(im, c) ==
  [column \in DOMAIN row[c] |->
     IF im.pend[c][column] # im.read[c][column] THEN im.pend[c][column] ELSE row[c][column]]

\* The commit.  An UPDATE of a row that is gone is a StaleDataError: nothing is written.
Commit(i) ==
  /\ At(i, "commit")
  /\ LET im == imp[i]
         new == {k \in DOMAIN FreeIds : k <= Len(im.inserts)}
     IN IF ~(DOMAIN im.pend \subseteq Existing)
        THEN Aborts(i) /\ UNCHANGED <<row, spent>>
        ELSE /\ row' = [c \in Ids |->
                          IF c \in DOMAIN im.pend THEN Written(im, c)
                          ELSE IF \E k \in new : FreeIds[k] = c
                          THEN im.inserts[CHOOSE k \in new : FreeIds[k] = c]
                          ELSE row[c]]
             /\ imp' = [j \in Importers |->
                          IF j = i THEN Resting
                          ELSE [imp[j] EXCEPT !.stale = imp[j].pc \notin {"idle", "list"}]]
             /\ spent' = [spent EXCEPT !.rows = @ + Len(im.inserts)]
  /\ UNCHANGED <<integration, files, raced>>

Import(i) == \/ Request(i) \/ List(i) \/ Link(i)
             \/ DownloadByCn(i) \/ ListIssuedFiles(i) \/ DownloadById(i) \/ IssueFile(i) \/ Fetch(i)
             \/ PickSlug(i) \/ Insert(i) \/ Commit(i)
-----------------------------------------------------------------------------
(* Operators' requests and DataGate's own side.                            *)

EditUsing(rows) == /\ spent.edits < MaxEdits /\ Events < MaxEvents
                   /\ spent' = [spent EXCEPT !.edits = @ + 1, !.rows = @ + rows]
Edit == EditUsing(0)

\* A slug another row holds is refused with 409, by the look-up or by the index.
SlugFree(slug) == slug \notin TakenSlugs \cup UNION {Inserting(i) : i \in Importers}
OwnSlugs == [base : {b \in DOMAIN SlugOf : \A s \in Servers : ServerOf[s].slug # b}, n : {1}]

\* MonitoredComponentService.create: a component of the operator's own.
CreateComponent ==
  /\ EditUsing(1) /\ Room
  /\ \E type \in {"openvpn", "xray"}, name \in DOMAIN NameOf, slug \in OwnSlugs, config \in DOMAIN ConfigOf :
       /\ SlugFree(slug)
       /\ row' = [row EXCEPT ![Head(FreeIds)] =
                    [type |-> type, name |-> name, slug |-> slug, link |-> None, cn |-> None, config |-> config]]
  /\ UNCHANGED <<integration, files, imp, raced>>

\* MonitoredComponentService.update: one column; the link and the common name are not in the schema.
UpdateComponent(c) ==
  /\ Edit /\ row[c] # None
  /\ \/ \E name \in DOMAIN NameOf : row' = [row EXCEPT ![c].name = name]
     \/ \E config \in DOMAIN ConfigOf : row' = [row EXCEPT ![c].config = config]
     \/ \E slug \in OwnSlugs : SlugFree(slug) /\ row' = [row EXCEPT ![c].slug = slug]
     \/ \E type \in {"openvpn", "xray", "http_status"} : row' = [row EXCEPT ![c].type = type]
  /\ UNCHANGED <<integration, files, imp, raced>>

DeleteComponent(c) == /\ Edit /\ row[c] # None /\ row' = [row EXCEPT ![c] = None]
                      /\ UNCHANGED <<integration, files, imp, raced>>

\* upsert
UpsertIntegration ==
  /\ Edit
  /\ \E prefix \in CnPrefixes, enabled \in BOOLEAN : integration' = [prefix |-> prefix, enabled |-> enabled]
  /\ UNCHANGED <<row, files, imp, raced>>

\* Someone revokes the files of a common name at DataGate.
Revoke(cn) == /\ Edit /\ files[cn].live > 0
              /\ files' = [files EXCEPT ![cn] = [live |-> 0, revoked |-> TRUE]]
              /\ UNCHANGED <<row, integration, imp, raced>>

Operators == \/ CreateComponent \/ UpsertIntegration
             \/ \E c \in Ids : UpdateComponent(c) \/ DeleteComponent(c)
             \/ \E cn \in CommonNames : Revoke(cn)

Next == Operators \/ \E i \in Importers : Import(i)

\* The components there are before the first import, linked by earlier ones or not.
Init ==
  /\ \E start \in Starts :
       /\ row = [c \in Ids |-> IF \E k \in DOMAIN start : RowIds[k] = c
                               THEN start[CHOOSE k \in DOMAIN start : RowIds[k] = c] ELSE None]
       /\ spent = [requests |-> 0, edits |-> 0, faults |-> 0, rows |-> Len(start)]
  /\ integration = [prefix |-> CHOOSE p \in CnPrefixes : TRUE, enabled |-> TRUE]
  /\ files = [cn \in CommonNames |-> [live |-> IF \E c \in Ids : row[c] # None /\ row[c].cn = cn THEN 1 ELSE 0,
                                      revoked |-> FALSE]]
  /\ imp = [i \in Importers |-> Resting]
  /\ raced = {}

Spec == Init /\ [][Next]_vars
-----------------------------------------------------------------------------
HoldsTyped(im) ==
  /\ im.pc \in Places /\ im.req \in Requests /\ im.prefix \in CnPrefixes /\ im.stale \in BOOLEAN
  /\ im.batch \in Seq(Servers) /\ im.work \in Seq(Jobs) /\ im.inserts \in Seq(Rows)
  /\ DOMAIN im.pend \subseteq DOMAIN im.read /\ DOMAIN im.read \subseteq Ids
  /\ \A c \in DOMAIN im.read : im.read[c] \in Rows
  /\ \A c \in DOMAIN im.pend : im.pend[c] \in Rows
  /\ im.reserved \subseteq Slugs /\ im.slug \in Slugs \cup {None}
  /\ im.work = <<>> <=> im.pc \in {"idle", "list", "commit"}

\* Every variable has its type: what an import holds are rows, servers and
\* slugs of the table's shape, wherever in its list it stands.
TypeOK ==
  /\ row \in [Ids -> Rows \cup {None}]
  /\ integration \in [prefix : CnPrefixes, enabled : BOOLEAN]
  /\ files \in [CommonNames -> [live : Nat, revoked : BOOLEAN]]
  /\ raced \subseteq CommonNames
  /\ spent \in [requests : 0..MaxEvents, edits : 0..MaxEdits, faults : 0..MaxFaults, rows : 0..Len(RowIds)]
  /\ \A i \in Importers : HoldsTyped(imp[i])

\* Which links the commit of an import may change that no other import has
\* overtaken: a server keeps the components it had, if it is not in the batch or the
\* component that holds it, the last of those the import read with a link to it, is
\* compatible; any other server is given one component at most.  This bounds what
\* is added.  A component whose link is wrong may keep it beside the one that is
\* added: of two components linked crosswise only one is rematched, the other's
\* link names a server that is used by then, and its own server gets a duplicate
\* (_component_available, matcher.py:187-198).
Linked(table, s) == {c \in Ids : table[c] # None /\ table[c].link = s}
ReadLinked(read, s) == {k \in DOMAIN RowIds : RowIds[k] \in DOMAIN read /\ read[RowIds[k]].link = s}
WellLinked(read, s) == \E k \in ReadLinked(read, s) : /\ \A j \in ReadLinked(read, s) : j <= k
                                                     /\ Compatible(Remote(s), Local(read[RowIds[k]]))
AtMostOneLinkAdded ==
  [][\A i \in Importers, s \in Servers :
       At(i, "commit") /\ imp'[i].pc # "commit" /\ ~imp[i].stale =>
         IF s \in ToSet(imp[i].batch) /\ ~WellLinked(imp[i].read, s)
         THEN Cardinality(Linked(row', s) \ Linked(row, s)) <= 1
         ELSE Linked(row', s) = Linked(row, s)]_vars

\* A monitor has one live client file per server, however often imports fail
\* half-way and are repeated, unless two imports were about to issue it at once.
MonitorIssuedOnce == \A cn \in CommonNames \ raced : files[cn].live <= 1
=============================================================================
