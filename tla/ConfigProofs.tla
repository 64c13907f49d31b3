----------------------------- MODULE ConfigProofs -----------------------------
(***************************************************************************)
(* Proofs about Config, for any units, addresses, names and workers, and   *)
(* any bounds on requests, runs, moves and failures.                       *)
(***************************************************************************)
EXTENDS Config, TLAPS

\* What the routes read and wrote is one change of one document.
Holding == {w \in Workers : pc[w] \in {"changed", "saved"}}

\* No two requests hold the write lock, and a save of the server is under way for the one
\* that changed something; the command line saves only while it runs.
OneAtATime ==
    /\ \A v, w \in Holding : v = w
    /\ stage["server"] # "none" <=> \E w \in Workers : pc[w] = "changed"
    /\ cli = "idle" => stage["cli"] = "none"

\* What is in a request that looks for the lock is an addition that found its unit.
FoundAdds ==
    \A w \in Workers : pc[w] = "found" => request[w].kind = "add" /\ request[w].at \in Addresses

\* A credential that is in a document is in another too, of the units in both.
KeepsKeys(old, new) == \A u \in DOMAIN old \cap DOMAIN new : old[u].key => new[u].key

\* The manager is a step behind what is listed while the lock is held, and the request
\* that holds it says which; a change that can still be undone takes no credentials.
StepBehind ==
    /\ Holding = {} => slots = mem
    /\ \A w \in Holding : Driven(request[w]) = mem /\ (pc[w] = "changed" => slots = prev)
    /\ stage["server"] = "none" => prev = mem
    /\ KeepsKeys(prev, mem)

\* Nobody writes a file that has a name, but the temporary one.
Writers ==
    /\ \A p \in Procs : stage[p] # "open" => fd[p] = NoNode
    /\ ~overlapped =>
          /\ \E p \in Procs : stage[p] \notin {"open", "written"}
          /\ \A p \in Procs : stage[p] = "open" => fd[p] = tmp /\ tmp # NoNode
          /\ \A p \in Procs : stage[p] = "written" => tmp # NoNode /\ content[tmp] = ToSave(p)

\* What a restart would load, at each stage of a save of the server.
OnFile ==
    ~overlapped =>
        /\ Whole
        /\ apart = {} => disk = IF stage["server"] \in {"ready", "open", "written"} THEN prev ELSE mem

\* The command line's copy has all that the file has, until the server saves.
UpToDate ==
    ~overlapped /\ cli # "idle" /\ ~behind => DOMAIN disk \subseteq DOMAIN copy /\ KeepsKeys(disk, copy)
-----------------------------------------------------------------------------
(* Documents.                                                              *)

LEMMA DocumentParts ==
    ASSUME NEW doc \in Documents
    PROVE  /\ DOMAIN doc \subseteq Units
           /\ \A u \in DOMAIN doc : doc[u] \in Entry
           /\ doc = [u \in DOMAIN doc |-> doc[u]]
BY DEF Documents

LEMMA DocumentWhole ==
    ASSUME NEW us \in SUBSET Units, NEW doc, doc \in [us -> Entry]
    PROVE  doc \in Documents
BY DEF Documents

LEMMA EmptyDocument == Empty \in Documents /\ DOMAIN Empty = {}
BY DEF Empty, Documents

\* A document with another entry is one, and has that entry.
LEMMA WithDocument ==
    ASSUME NEW doc \in Documents, NEW u \in Units, NEW entry \in Entry
    PROVE  /\ With(doc, u, entry) \in Documents
           /\ DOMAIN With(doc, u, entry) = DOMAIN doc \cup {u}
           /\ With(doc, u, entry)[u] = entry
           /\ \A x \in DOMAIN doc : x # u => With(doc, u, entry)[x] = doc[x]
<1>1. DOMAIN doc \cup {u} \in SUBSET Units /\ \A x \in DOMAIN doc : doc[x] \in Entry
    BY DocumentParts
<1>2. With(doc, u, entry) \in [DOMAIN doc \cup {u} -> Entry]
    BY <1>1 DEF With
<1>3. With(doc, u, entry) \in Documents
    BY <1>1, <1>2, DocumentWhole
<1> QED
    BY <1>3 DEF With

LEMMA WithoutDocument ==
    ASSUME NEW doc \in Documents, NEW us
    PROVE  Without(doc, us) \in Documents
<1>1. DOMAIN doc \ us \in SUBSET Units /\ \A x \in DOMAIN doc : doc[x] \in Entry
    BY DocumentParts
<1>2. Without(doc, us) \in [DOMAIN doc \ us -> Entry]
    BY <1>1 DEF Without
<1> QED
    BY <1>1, <1>2, DocumentWhole

LEMMA RenamedDocument ==
    ASSUME NEW doc \in Documents, NEW u \in DOMAIN doc, NEW name \in Names
    PROVE  [doc EXCEPT ![u].name = name] \in Documents
<1>1. DOMAIN doc \in SUBSET Units /\ doc \in [DOMAIN doc -> Entry]
    BY DocumentParts
<1>2. [doc EXCEPT ![u].name = name] \in [DOMAIN doc -> Entry]
    BY <1>1 DEF Entry
<1> QED
    BY <1>1, <1>2, DocumentWhole

LEMMA NameGiven ==
    ASSUME NEW doc \in Documents, NEW u, NEW name \in Names \cup {NoName}
    PROVE  NameFor(doc, u, name) \in Names \cup {Generated}
BY DocumentParts DEF NameFor, Entry

\* What an addition makes of a document: its own entry, with the credentials there were.
LEMMA AddedDocument ==
    ASSUME NEW doc \in Documents, NEW u \in Units, NEW entry \in Entry
    PROVE  /\ AddOrUpdate(doc, u, entry) \in Documents
           /\ AddOrUpdate(doc, u, entry) = With(doc, u, AddOrUpdate(doc, u, entry)[u])
           /\ KeepsKeys(doc, AddOrUpdate(doc, u, entry))
<1> DEFINE new == IF u \in DOMAIN doc THEN [entry EXCEPT !.key = @ \/ doc[u].key] ELSE entry
<1>1. new \in Entry
    BY DocumentParts DEF Entry
<1>2. u \in DOMAIN doc => new.key = (entry.key \/ doc[u].key)
    BY DEF Entry
<1>3. AddOrUpdate(doc, u, entry) = With(doc, u, new)
    BY DEF AddOrUpdate
<1> HIDE DEF new
<1>4. /\ With(doc, u, new) \in Documents
      /\ With(doc, u, new)[u] = new
      /\ \A x \in DOMAIN doc : x # u => With(doc, u, new)[x] = doc[x]
    BY <1>1, WithDocument
<1>5. KeepsKeys(doc, With(doc, u, new))
    BY <1>2, <1>4 DEF KeepsKeys
<1> QED
    BY <1>3, <1>4, <1>5
-----------------------------------------------------------------------------
(* Types.                                                                  *)

LEMMA ProcessPair == \A p \in Procs : Other(p) \in Procs /\ Other(p) # p
<1>1. \A p \in Procs : \E q \in Procs : q # p
    BY DEF Procs
<1> QED
    BY <1>1 DEF Other

\* There is always a node for another file.
LEMMA FreshNode ==
    ASSUME tmp = NoNode
    PROVE  Fresh \in Nodes /\ Fresh # path /\ \A p \in Procs : Fresh # fd[p]
<1> DEFINE used == {path, tmp} \cup {fd[p] : p \in Procs}
<1>1. used = {path, NoNode, fd["server"], fd["cli"]}
    BY DEF Procs
<1>2. \E n \in Nodes : n \notin used
    <2>1. {1, 2, 3, 4} \subseteq Nodes /\ NoNode = 0
        BY DEF Nodes, NoNode
    <2>2. \/ 1 \notin used \/ 2 \notin used \/ 3 \notin used \/ 4 \notin used
        BY <1>1, <2>1
    <2> QED
        BY <2>1, <2>2
<1> QED
    BY <1>2 DEF Fresh

LEMMA NodesAreNumbers == NoNode \notin Nodes
BY DEF Nodes, NoNode

LEMMA TypeInit == Init => TypeOK /\ FoundAdds
<1> SUFFICES ASSUME Init PROVE TypeOK /\ FoundAdds
    OBVIOUS
<1>1. mem \in Documents
    <2>1. PICK us \in SUBSET {u \in Units : lives[u] # Off} :
              mem = [u \in us |-> [at |-> lives[u], key |-> TRUE, name |-> Generated]]
        BY DEF Init
    <2>2. \A u \in us : [at |-> lives[u], key |-> TRUE, name |-> Generated] \in Entry
        BY DEF Init, Entry
    <2>3. mem \in [us -> Entry]
        BY <2>1, <2>2
    <2> QED
        BY <2>3, DocumentWhole
<1>2. {mem, prev, slots, copy} \subseteq Documents
    BY <1>1, EmptyDocument DEF Init
<1>3. path \in Nodes /\ tmp \in (Nodes \ {path}) \cup {NoNode}
    BY DEF Init, Nodes
<1>4. content \in [Nodes -> Documents \cup {Torn}]
    BY <1>1 DEF Init
<1>5. fd \in [Procs -> Nodes \cup {NoNode}]
      /\ stage \in [Procs -> {"none", "ready", "open", "written", "renamed"}]
    BY DEF Init
<1>6. /\ lives \in [Units -> Addresses \cup {Off}] /\ up \in BOOLEAN
      /\ pc \in [Workers -> {"idle", "found", "changed", "saved"}]
      /\ \A w \in Workers : pc[w] = "idle" /\ request[w] = NoRequest
      /\ request \in [Workers -> Requests \cup {NoRequest}]
      /\ cli \in {"idle", "pair", "fetch"}
      /\ apart \subseteq {"late", "foreign"} /\ behind \in BOOLEAN /\ overlapped \in BOOLEAN
    BY DEF Init
<1> QED
    BY <1>2, <1>3, <1>4, <1>5, <1>6 DEF TypeOK, FoundAdds

\* The steps of a save.
LEMMA TypeSave ==
    ASSUME TypeOK, FoundAdds, NEW p \in Procs, Save(p)
    PROVE  TypeOK' /\ FoundAdds'
<1> USE DEF TypeOK, serverVars, cliVars, fileVars, histVars, bounds
<1>1. CASE Open(p)
    <2>1. tmp' \in Nodes /\ tmp' # path
        BY <1>1, FreshNode DEF Open
    <2>2. UNCHANGED <<lives, up, mem, prev, slots, pc, request, cli, copy, path, apart, behind>>
        BY <1>1 DEF Open
    <2>3. /\ fd' = [fd EXCEPT ![p] = tmp'] /\ content' = [content EXCEPT ![tmp'] = Torn]
          /\ stage' = [stage EXCEPT ![p] = "open"] /\ overlapped' \in BOOLEAN
        BY <1>1 DEF Open
    <2> QED
        BY <2>1, <2>2, <2>3 DEF FoundAdds
<1>2. CASE Write(p)
    <2>1. ToSave(p) \in Documents
        BY DEF ToSave
    <2>2. content' \in [Nodes -> Documents \cup {Torn}]
        BY <1>2, <2>1 DEF Write
    <2>3. UNCHANGED <<lives, up, mem, prev, slots, pc, request, cli, copy, path, tmp, apart, behind,
                      overlapped>>
          /\ fd' = [fd EXCEPT ![p] = NoNode] /\ stage' = [stage EXCEPT ![p] = "written"]
        BY <1>2 DEF Write
    <2> QED
        BY <2>2, <2>3 DEF FoundAdds
<1>3. CASE Replace(p)
    <2>1. path' \in Nodes /\ tmp' = NoNode
        BY <1>3 DEF Replace
    <2>2. UNCHANGED <<lives, up, mem, prev, slots, pc, request, cli, copy, fd, overlapped>>
        BY <1>3 DEF Replace
    <2>3. /\ content' = [content EXCEPT ![path] = Torn]
          /\ stage' = [stage EXCEPT ![p] = "renamed"]
          /\ apart' \subseteq {"late", "foreign"} /\ behind' \in BOOLEAN
        BY <1>3 DEF Replace
    <2> QED
        BY <2>1, <2>2, <2>3 DEF FoundAdds
<1>4. CASE Saved(p)
    <2>1. stage' = [stage EXCEPT ![p] = "none"]
          /\ UNCHANGED <<lives, up, mem, slots, request, path, tmp, content, fd, apart, overlapped>>
        BY <1>4 DEF Saved
    <2>2. CASE p = "server"
        <3>1. /\ pc' = [w \in Workers |-> IF pc[w] = "changed" THEN "saved" ELSE pc[w]]
              /\ prev' = mem /\ UNCHANGED <<cli, copy, behind>>
            BY <1>4, <2>2 DEF Saved
        <3> QED
            BY <2>1, <3>1 DEF FoundAdds
    <2>3. CASE p # "server"
        <3>1. cli' = "idle" /\ copy' = Empty /\ behind' = FALSE /\ UNCHANGED <<pc, prev>>
            BY <1>4, <2>3 DEF Saved
        <3> QED
            BY <2>1, <3>1, EmptyDocument DEF FoundAdds
    <2> QED
        BY <2>2, <2>3
<1> QED
    BY <1>1, <1>2, <1>3, <1>4 DEF Save

LEMMA TypeFails ==
    ASSUME TypeOK, FoundAdds, SaveFails
    PROVE  TypeOK' /\ FoundAdds'
<1> USE DEF TypeOK
<1>1. ASSUME NEW p \in Procs, Fails(p)
      PROVE  /\ UNCHANGED <<lives, up, slots, path, tmp, content, overlapped>>
             /\ stage' = [stage EXCEPT ![p] = "none"] /\ fd' = [fd EXCEPT ![p] = NoNode]
             /\ apart' \subseteq {"late", "foreign"}
    BY <1>1 DEF Fails
<1>2. CASE Fails("server") /\ ServerGivesUp(prev) /\ UNCHANGED <<cliVars, behind>>
    <2>1. "server" \in Procs
        BY DEF Procs
    <2>2. /\ mem' = prev /\ prev' = prev
          /\ pc' = [w \in Workers |-> IF pc[w] = "changed" THEN "idle" ELSE pc[w]]
          /\ request' = [w \in Workers |-> IF pc[w] = "changed" THEN NoRequest ELSE request[w]]
          /\ UNCHANGED <<cli, copy, behind>>
        BY <1>2 DEF ServerGivesUp, cliVars
    <2> QED
        BY <1>1, <1>2, <2>1, <2>2 DEF FoundAdds
<1>3. CASE Fails("cli") /\ CliGivesUp /\ UNCHANGED <<mem, prev, pc, request>>
    <2>1. "cli" \in Procs
        BY DEF Procs
    <2>2. cli' = "idle" /\ copy' = Empty /\ behind' = FALSE
        BY <1>3 DEF CliGivesUp
    <2> QED
        BY <1>1, <1>3, <2>1, <2>2, EmptyDocument DEF FoundAdds
<1> QED
    BY <1>2, <1>3 DEF SaveFails

\* The route that holds the lock changes the document to another.
LEMMA TypeChange ==
    ASSUME TypeOK, FoundAdds, NEW w \in Workers, NEW doc \in Documents, Change(w, doc),
           UNCHANGED request \/ \E r \in Requests : request' = [request EXCEPT ![w] = r],
           request'[w] \in Requests
    PROVE  TypeOK' /\ FoundAdds'
<1> USE DEF TypeOK
<1>1. /\ UNCHANGED <<lives, up, slots, cli, copy, path, tmp, content, fd, apart, behind, overlapped>>
      /\ prev' = mem /\ mem' = doc
      /\ pc' = [pc EXCEPT ![w] = "changed"]
      /\ stage' = [stage EXCEPT !["server"] = "ready"]
    BY DEF Change, cliVars, fileVars, histVars
<1>2. "server" \in Procs
    BY DEF Procs
<1>3. \A v \in Workers : v # w => pc'[v] = pc[v] /\ request'[v] = request[v]
    BY <1>1
<1>4. pc'[w] = "changed"
    BY <1>1
<1>5. FoundAdds'
    BY <1>3, <1>4 DEF FoundAdds
<1>6. request' \in [Workers -> Requests \cup {NoRequest}] /\ request'[w] # NoRequest
    BY ConfigAssumption
<1>7. \A v \in Workers : pc'[v] = "idle" <=> request'[v] = NoRequest
    BY <1>3, <1>4, <1>6
<1> HIDE DEF TypeOK
<1>8. /\ pc' \in [Workers -> {"idle", "found", "changed", "saved"}]
      /\ stage' \in [Procs -> {"none", "ready", "open", "written", "renamed"}]
    BY <1>1, <1>2 DEF TypeOK
<1> QED
    BY <1>1, <1>5, <1>6, <1>7, <1>8 DEF TypeOK

LEMMA TypeRoutes ==
    ASSUME TypeOK, FoundAdds, NEW w \in Workers,
           \/ \E at \in Addresses, key \in BOOLEAN, name \in Names \cup {NoName} :
                 AddFinds(w, at, key, name)
           \/ AddStores(w)
           \/ \E u \in Units : DeleteUnit(w, u) \/ \E name \in Names : RenameUnit(w, u, name)
           \/ TellManager(w),
           pc[w] = "saved" => Driven(request[w]) = mem
    PROVE  TypeOK' /\ FoundAdds'
<1>1. ASSUME NEW at \in Addresses, NEW key \in BOOLEAN, NEW name \in Names \cup {NoName},
             AddFinds(w, at, key, name)
      PROVE  TypeOK' /\ FoundAdds'
    <2>1. PICK u \in Units : request' = [request EXCEPT ![w] =
              [kind |-> "add", unit |-> u, at |-> at, key |-> key, name |-> name]]
        BY <1>1 DEF AddFinds
    <2>2. pc' = [pc EXCEPT ![w] = "found"]
          /\ UNCHANGED <<lives, up, mem, prev, slots, cli, copy, path, tmp, content, fd, stage,
                         apart, behind, overlapped>>
        BY <1>1 DEF AddFinds, cliVars, fileVars, histVars
    <2> DEFINE r == [kind |-> "add", unit |-> u, at |-> at, key |-> key, name |-> name]
    <2>3. r \in Requests /\ r.kind = "add" /\ r.at = at
        BY DEF Requests
    <2> HIDE DEF r
    <2>4. \A v \in Workers : /\ pc'[v] = IF v = w THEN "found" ELSE pc[v]
                             /\ request'[v] = IF v = w THEN r ELSE request[v]
        BY <2>1, <2>2 DEF TypeOK, r
    <2>5. FoundAdds'
        BY <2>3, <2>4 DEF FoundAdds
    <2>6. r # NoRequest
        BY <2>3, ConfigAssumption
    <2>7. request' \in [Workers -> Requests \cup {NoRequest}]
          /\ pc' \in [Workers -> {"idle", "found", "changed", "saved"}]
        BY <2>1, <2>2, <2>3 DEF TypeOK, r
    <2>8. \A v \in Workers : pc'[v] = "idle" <=> request'[v] = NoRequest
        BY <2>4, <2>6 DEF TypeOK
    <2> QED
        BY <2>2, <2>5, <2>7, <2>8 DEF TypeOK
<1>2. CASE AddStores(w)
    <2> DEFINE r == request[w]
               entry == [at |-> r.at, key |-> r.key, name |-> NameFor(mem, r.unit, r.name)]
    <2>1. r \in Requests /\ r.at \in Addresses
        BY <1>2 DEF AddStores, TypeOK, FoundAdds
    <2>2. r.unit \in Units /\ r.key \in BOOLEAN /\ r.name \in Names \cup {NoName}
        BY <2>1 DEF Requests
    <2>3. mem \in Documents
        BY DEF TypeOK
    <2>4. entry \in Entry
        BY <2>1, <2>2, <2>3, NameGiven DEF Entry
    <2>5. Change(w, AddOrUpdate(mem, r.unit, entry)) /\ UNCHANGED request
        BY <1>2 DEF AddStores
    <2> HIDE DEF r, entry
    <2>6. AddOrUpdate(mem, r.unit, entry) \in Documents
        BY <2>2, <2>3, <2>4, AddedDocument
    <2> QED
        BY <2>1, <2>5, <2>6, TypeChange DEF r
<1>3. ASSUME NEW u \in Units, NEW kind \in {"rename", "delete"}, NEW name \in Names \cup {NoName},
             Begins(w, kind, u, name)
      PROVE  /\ \E r \in Requests : request' = [request EXCEPT ![w] = r]
             /\ request'[w] \in Requests
    <2>1. [kind |-> kind, unit |-> u, at |-> Off, key |-> FALSE, name |-> name] \in Requests
        BY DEF Requests
    <2> QED
        BY <1>3, <2>1 DEF Begins, TypeOK
<1>4. ASSUME NEW u \in Units, DeleteUnit(w, u)
      PROVE  TypeOK' /\ FoundAdds'
    <2>1. Begins(w, "delete", u, NoName) /\ Change(w, Without(mem, {u}))
        BY <1>4 DEF DeleteUnit
    <2>2. Without(mem, {u}) \in Documents
        BY WithoutDocument DEF TypeOK
    <2> QED
        BY <1>3, <2>1, <2>2, TypeChange
<1>5. ASSUME NEW u \in Units, NEW name \in Names, RenameUnit(w, u, name)
      PROVE  TypeOK' /\ FoundAdds'
    <2>1. Begins(w, "rename", u, name) /\ Change(w, [mem EXCEPT ![u].name = name])
        BY <1>5 DEF RenameUnit
    <2>2. [mem EXCEPT ![u].name = name] \in Documents
        BY <2>1, RenamedDocument DEF TypeOK, Begins
    <2> QED
        BY <1>3, <2>1, <2>2, TypeChange
<1>6. CASE TellManager(w)
    <2>1. /\ pc[w] = "saved" /\ slots' = Driven(request[w])
          /\ pc' = [pc EXCEPT ![w] = "idle"] /\ request' = [request EXCEPT ![w] = NoRequest]
          /\ UNCHANGED <<lives, up, mem, prev, cli, copy, path, tmp, content, fd, stage, apart,
                         behind, overlapped>>
        BY <1>6 DEF TellManager, cliVars, fileVars, histVars
    <2>2. FoundAdds'
        BY <2>1 DEF FoundAdds, TypeOK
    <2>3. slots' \in Documents
        BY <2>1 DEF TypeOK
    <2> QED
        BY <2>1, <2>2, <2>3 DEF TypeOK
<1> QED
    BY <1>1, <1>2, <1>4, <1>5, <1>6

LEMMA TypeCommand ==
    ASSUME TypeOK, FoundAdds,
           \/ \E command \in {"pair", "fetch"} : CliLoads(command)
           \/ \E found, typed \in SUBSET Units : PairSaves(found, typed)
           \/ \E got \in SUBSET Units : FetchSaves(got)
           \/ CliEnds
    PROVE  TypeOK' /\ FoundAdds'
<1> USE DEF TypeOK, serverVars, fileVars, histVars
<1>1. "cli" \in Procs
    BY DEF Procs
<1>2. ASSUME NEW command \in {"pair", "fetch"}, CliLoads(command)
      PROVE  TypeOK' /\ FoundAdds'
    <2>1. copy' \in Documents /\ cli' = command
        BY <1>2, EmptyDocument DEF CliLoads, Whole, disk
    <2> QED
        BY <1>2, <2>1 DEF CliLoads, FoundAdds
<1>3. ASSUME NEW found \in SUBSET Units, NEW typed, PairSaves(found, typed)
      PROVE  TypeOK' /\ FoundAdds'
    <2> DEFINE entry(u) == IF u \notin found THEN copy[u]
                           ELSE [at   |-> lives[u],
                                 key  |-> u \in typed \/ (u \in DOMAIN copy /\ copy[u].key),
                                 name |-> NameFor(copy, u, NoName)]
    <2>1. copy' = [u \in DOMAIN copy \cup found |-> entry(u)]
        BY <1>3 DEF PairSaves
    <2>2. DOMAIN copy \subseteq Units /\ \A u \in DOMAIN copy : copy[u] \in Entry
        BY DocumentParts
    <2>3. \A u \in found : lives[u] \in Addresses
        BY <1>3 DEF PairSaves
    <2>4. \A u : NameFor(copy, u, NoName) \in Names \cup {Generated}
        BY NameGiven
    <2>5. \A u \in DOMAIN copy \cup found : entry(u) \in Entry
        <3> SUFFICES ASSUME NEW u \in DOMAIN copy \cup found PROVE entry(u) \in Entry
            OBVIOUS
        <3>1. CASE u \notin found
            BY <2>2, <3>1
        <3>2. CASE u \in found
            <4>1. (u \in typed \/ (u \in DOMAIN copy /\ copy[u].key)) \in BOOLEAN
                OBVIOUS
            <4>2. NameFor(copy, u, NoName) \in Names \cup {Generated} /\ lives[u] \in Addresses
                BY <2>3, <2>4, <3>2
            <4> QED
                BY <3>2, <4>1, <4>2 DEF Entry
        <3> QED
            BY <3>1, <3>2
    <2> HIDE DEF entry
    <2>6. copy' \in Documents
        BY <2>1, <2>2, <2>5, DocumentWhole
    <2>7. stage' = [stage EXCEPT !["cli"] = "ready"]
          /\ UNCHANGED <<lives, serverVars, cli, fileVars, histVars>>
        BY <1>3 DEF PairSaves
    <2> QED
        BY <1>1, <2>6, <2>7 DEF FoundAdds
<1>4. ASSUME NEW got \in SUBSET Units, FetchSaves(got)
      PROVE  TypeOK' /\ FoundAdds'
    <2>1. copy' = [u \in DOMAIN copy |-> [copy[u] EXCEPT !.key = @ \/ u \in got]]
          /\ stage' = [stage EXCEPT !["cli"] = "ready"]
          /\ UNCHANGED <<lives, serverVars, cli, fileVars, histVars>>
        BY <1>4 DEF FetchSaves
    <2>2. DOMAIN copy \in SUBSET Units /\ \A u \in DOMAIN copy : copy[u] \in Entry
        BY DocumentParts
    <2>3. \A u \in DOMAIN copy : [copy[u] EXCEPT !.key = @ \/ u \in got] \in Entry
        <3> SUFFICES ASSUME NEW u \in DOMAIN copy
                     PROVE  [copy[u] EXCEPT !.key = @ \/ u \in got] \in Entry
            OBVIOUS
        <3>1. copy[u] \in Entry /\ (copy[u].key \/ u \in got) \in BOOLEAN
            BY <2>2
        <3> QED
            BY <3>1 DEF Entry
    <2>4. copy' \in Documents
        BY <2>1, <2>2, <2>3, DocumentWhole
    <2> QED
        BY <1>1, <2>1, <2>4 DEF FoundAdds
<1>5. CASE CliEnds
    BY <1>1, <1>5, EmptyDocument DEF CliEnds, FoundAdds
<1> QED
    BY <1>2, <1>3, <1>4, <1>5

LEMMA TypeWorld ==
    ASSUME TypeOK, FoundAdds,
           Restart \/ \E u \in Units, at \in Addresses \cup {Off} : Moves(u, at)
    PROVE  TypeOK' /\ FoundAdds'
<1> USE DEF TypeOK, serverVars, cliVars, fileVars, histVars
<1>1. CASE Restart
    <2>1. mem' \in Documents /\ prev' = mem' /\ slots' = mem' /\ up' \in BOOLEAN
        BY <1>1, EmptyDocument DEF Restart, Whole, disk
    <2>2. /\ pc' = [w \in Workers |-> "idle"] /\ request' = [w \in Workers |-> NoRequest]
          /\ stage' = [stage EXCEPT !["server"] = "none"]
          /\ fd' = [fd EXCEPT !["server"] = NoNode]
          /\ apart' = {}
          /\ UNCHANGED <<lives, cli, copy, path, tmp, content, behind, overlapped>>
        BY <1>1 DEF Restart
    <2>3. "server" \in Procs
        BY DEF Procs
    <2> QED
        BY <2>1, <2>2, <2>3 DEF FoundAdds
<1>2. ASSUME NEW u \in Units, NEW at \in Addresses \cup {Off}, Moves(u, at)
      PROVE  TypeOK' /\ FoundAdds'
    BY <1>2 DEF Moves, FoundAdds
<1> QED
    BY <1>1, <1>2

-----------------------------------------------------------------------------
(* The lock, and what the manager drives.                                  *)

LockInvariant == OneAtATime /\ StepBehind

LEMMA LockInit == Init => LockInvariant
<1> SUFFICES ASSUME Init PROVE LockInvariant
    OBVIOUS
<1>1. Holding = {}
    BY DEF Init, Holding
<1>2. OneAtATime
    BY <1>1 DEF Init, OneAtATime, Holding, Procs
<1>3. StepBehind
    BY <1>1 DEF Init, StepBehind, KeepsKeys, Procs
<1> QED
    BY <1>2, <1>3 DEF LockInvariant

\* A save gets on, of a process that goes on with it.
LEMMA LockSaving ==
    ASSUME TypeOK, LockInvariant,
           UNCHANGED <<pc, request, mem, prev, slots, cli>>,
           NEW p \in Procs, NEW s, stage[p] # "none", s # "none",
           stage' = [stage EXCEPT ![p] = s]
    PROVE  LockInvariant'
<1>1. \A q \in Procs : stage'[q] = "none" <=> stage[q] = "none"
    BY DEF TypeOK
<1>2. {"server", "cli"} = Procs
    BY DEF Procs
<1>3. Holding' = Holding /\ \A r : Driven(r)' = Driven(r)
    BY DEF Holding, Driven
<1>4. OneAtATime'
    BY <1>1, <1>2, <1>3 DEF LockInvariant, OneAtATime
<1>5. StepBehind'
    BY <1>1, <1>2, <1>3 DEF LockInvariant, StepBehind, KeepsKeys
<1> QED
    BY <1>4, <1>5 DEF LockInvariant

LEMMA LockSave ==
    ASSUME TypeOK, LockInvariant, NEW p \in Procs, Save(p)
    PROVE  LockInvariant'
<1>1. CASE Open(p) \/ Write(p) \/ Replace(p)
    <2>1. UNCHANGED <<pc, request, mem, prev, slots, cli>> /\ stage[p] # "none"
        BY <1>1 DEF Open, Write, Replace, serverVars, cliVars
    <2>2. \E s \in {"open", "written", "renamed"} : stage' = [stage EXCEPT ![p] = s]
        BY <1>1 DEF Open, Write, Replace
    <2> QED
        BY <2>1, <2>2, LockSaving
<1>2. CASE Saved(p) /\ p = "server"
    <2>1. /\ stage["server"] # "none" /\ stage' = [stage EXCEPT !["server"] = "none"]
          /\ pc' = [w \in Workers |-> IF pc[w] = "changed" THEN "saved" ELSE pc[w]]
          /\ prev' = mem /\ UNCHANGED <<request, mem, slots, cli>>
        BY <1>2 DEF Saved, cliVars
    <2>2. Holding' = Holding /\ \A w \in Workers : pc'[w] # "changed"
        BY <2>1 DEF Holding
    <2>3. stage'["server"] = "none" /\ stage'["cli"] = stage["cli"]
        BY <2>1 DEF TypeOK, Procs
    <2>4. OneAtATime'
        BY <2>1, <2>2, <2>3 DEF LockInvariant, OneAtATime
    <2>5. \A r : Driven(r)' = Driven(r)
        BY <2>1 DEF Driven
    <2>6. \A w \in Holding' : Driven(request[w])' = mem' /\ pc'[w] # "changed"
        BY <2>1, <2>2, <2>5 DEF LockInvariant, StepBehind, Holding
    <2>7. (Holding = {} => slots = mem)'
        BY <2>1, <2>2 DEF LockInvariant, StepBehind
    <2> QED
        BY <2>1, <2>4, <2>6, <2>7 DEF LockInvariant, StepBehind, KeepsKeys
<1>3. CASE Saved(p) /\ p = "cli"
    <2>1. /\ stage' = [stage EXCEPT !["cli"] = "none"]
          /\ cli' = "idle" /\ UNCHANGED <<pc, request, mem, prev, slots>>
        BY <1>3 DEF Saved
    <2>2. stage'["server"] = stage["server"] /\ stage'["cli"] = "none"
        BY <2>1 DEF TypeOK, Procs
    <2>3. Holding' = Holding /\ \A r : Driven(r)' = Driven(r)
        BY <2>1 DEF Holding, Driven
    <2>4. OneAtATime'
        BY <2>1, <2>2, <2>3 DEF LockInvariant, OneAtATime
    <2>5. StepBehind'
        BY <2>1, <2>2, <2>3 DEF LockInvariant, StepBehind, KeepsKeys
    <2> QED
        BY <2>4, <2>5 DEF LockInvariant
<1> QED
    BY <1>1, <1>2, <1>3 DEF Save, Procs

\* A failed save puts back what the manager still drives.
LEMMA LockFails ==
    ASSUME TypeOK, LockInvariant, SaveFails
    PROVE  LockInvariant'
<1>1. ASSUME NEW p \in Procs, Fails(p)
      PROVE  slots' = slots /\ stage' = [stage EXCEPT ![p] = "none"] /\ stage[p] # "none"
    BY <1>1 DEF Fails
<1>2. {"server", "cli"} = Procs
    BY DEF Procs
<1>3. CASE Fails("server") /\ ServerGivesUp(prev) /\ UNCHANGED <<cliVars, behind>>
    <2>1. /\ mem' = prev /\ prev' = prev /\ UNCHANGED cli
          /\ pc' = [w \in Workers |-> IF pc[w] = "changed" THEN "idle" ELSE pc[w]]
        BY <1>3 DEF ServerGivesUp, cliVars
    <2>2. stage["server"] # "none" /\ stage'["server"] = "none" /\ stage'["cli"] = stage["cli"]
        BY <1>1, <1>2, <1>3 DEF TypeOK
    <2>3. PICK w \in Workers : pc[w] = "changed"
        BY <2>2 DEF LockInvariant, OneAtATime
    <2>4. w \in Holding /\ slots = prev
        BY <2>3 DEF LockInvariant, StepBehind, Holding
    <2>5. Holding' = {} /\ \A v \in Workers : pc'[v] # "changed"
        BY <2>1, <2>3, <2>4 DEF LockInvariant, OneAtATime, Holding
    <2>6. OneAtATime'
        BY <2>1, <2>2, <2>5 DEF LockInvariant, OneAtATime
    <2>7. StepBehind'
        BY <1>1, <1>2, <1>3, <2>1, <2>4, <2>5 DEF StepBehind, KeepsKeys
    <2> QED
        BY <2>6, <2>7 DEF LockInvariant
<1>4. CASE Fails("cli") /\ CliGivesUp /\ UNCHANGED <<mem, prev, pc, request>>
    <2>1. cli' = "idle" /\ UNCHANGED <<mem, prev, pc, request, slots>>
        BY <1>1, <1>2, <1>4 DEF CliGivesUp
    <2>2. stage'["server"] = stage["server"] /\ stage'["cli"] = "none"
        BY <1>1, <1>2, <1>4 DEF TypeOK
    <2>3. Holding' = Holding /\ \A r : Driven(r)' = Driven(r)
        BY <2>1 DEF Holding, Driven
    <2>4. OneAtATime'
        BY <2>1, <2>2, <2>3 DEF LockInvariant, OneAtATime
    <2>5. StepBehind'
        BY <2>1, <2>2, <2>3 DEF LockInvariant, StepBehind, KeepsKeys
    <2> QED
        BY <2>4, <2>5 DEF LockInvariant
<1> QED
    BY <1>3, <1>4 DEF SaveFails

\* A route takes the lock; the manager is to do to its table what the route did to the
\* document.
LEMMA LockChange ==
    ASSUME TypeOK, LockInvariant, NEW w \in Workers, NEW doc, Change(w, doc), KeepsKeys(mem, doc),
           Driven(request[w])' = doc
    PROVE  LockInvariant'
<1>1. /\ prev' = mem /\ mem' = doc /\ slots' = slots /\ cli' = cli
      /\ pc' = [pc EXCEPT ![w] = "changed"]
      /\ stage' = [stage EXCEPT !["server"] = "ready"]
    BY DEF Change, cliVars
<1>2. Holding = {}
    BY DEF Change, Locked, Holding
<1>3. Holding' = {w} /\ pc'[w] = "changed"
    BY <1>1, <1>2 DEF Holding, TypeOK
<1>4. stage'["server"] = "ready" /\ stage'["cli"] = stage["cli"]
    BY <1>1 DEF TypeOK, Procs
<1>5. OneAtATime'
    BY <1>1, <1>3, <1>4 DEF LockInvariant, OneAtATime
<1>6. slots = mem
    BY <1>2 DEF LockInvariant, StepBehind
<1>7. StepBehind'
    <2>1. \A v \in Holding' : v = w
        BY <1>3
    <2>2. Driven(request[w])' = mem' /\ slots' = prev'
        BY <1>1, <1>6
    <2>3. KeepsKeys(prev, mem)'
        BY <1>1 DEF KeepsKeys
    <2> QED
        BY <1>3, <1>4, <2>1, <2>2, <2>3 DEF StepBehind
<1> QED
    BY <1>5, <1>7 DEF LockInvariant

LEMMA LockRoutes ==
    ASSUME TypeOK, FoundAdds, LockInvariant, NEW w \in Workers,
           \/ \E at \in Addresses, key \in BOOLEAN, name \in Names \cup {NoName} :
                 AddFinds(w, at, key, name)
           \/ AddStores(w)
           \/ \E u \in Units : DeleteUnit(w, u) \/ \E name \in Names : RenameUnit(w, u, name)
           \/ TellManager(w)
    PROVE  LockInvariant'
<1>1. ASSUME NEW at, NEW key, NEW name, AddFinds(w, at, key, name)
      PROVE  LockInvariant'
    <2>1. /\ UNCHANGED <<mem, prev, slots, cli, stage>>
          /\ pc[w] = "idle" /\ pc' = [pc EXCEPT ![w] = "found"]
          /\ \A v \in Workers : v # w => request'[v] = request[v]
        BY <1>1 DEF AddFinds, TypeOK, cliVars
    <2>2. Holding' = Holding /\ w \notin Holding
        BY <2>1 DEF Holding, TypeOK
    <2>3. \A v \in Workers : pc'[v] = "changed" <=> pc[v] = "changed"
        BY <2>1 DEF TypeOK
    <2>4. OneAtATime'
        BY <2>1, <2>2, <2>3 DEF LockInvariant, OneAtATime
    <2>5. \A v \in Holding : Driven(request[v])' = Driven(request[v])
        BY <2>1, <2>2 DEF Driven, Holding
    <2>6. StepBehind'
        BY <2>1, <2>2, <2>3, <2>5 DEF LockInvariant, StepBehind, KeepsKeys, Holding
    <2> QED
        BY <2>4, <2>6 DEF LockInvariant
<1>2. ASSUME NEW doc, Change(w, doc) PROVE slots = mem /\ slots' = slots /\ mem' = doc
    <2>1. Holding = {}
        BY <1>2 DEF Change, Locked, Holding
    <2> QED
        BY <1>2, <2>1 DEF LockInvariant, StepBehind, Change
<1>3. CASE AddStores(w)
    <2> DEFINE r == request[w]
               entry == [at |-> r.at, key |-> r.key, name |-> NameFor(mem, r.unit, r.name)]
               doc == AddOrUpdate(mem, r.unit, entry)
    <2>1. r \in Requests /\ r.at \in Addresses /\ r.kind = "add"
        BY <1>3, ConfigAssumption DEF AddStores, TypeOK, FoundAdds
    <2>2. r.unit \in Units /\ r.key \in BOOLEAN /\ r.name \in Names \cup {NoName}
        BY <2>1 DEF Requests
    <2>3. mem \in Documents
        BY DEF TypeOK
    <2>4. entry \in Entry
        BY <2>1, <2>2, <2>3, NameGiven DEF Entry
    <2>5. Change(w, doc) /\ request' = request
        BY <1>3 DEF AddStores
    <2> HIDE DEF entry
    <2>6. doc = With(mem, r.unit, doc[r.unit]) /\ KeepsKeys(mem, doc)
        BY <2>2, <2>3, <2>4, AddedDocument
    <2> HIDE DEF doc
    <2>7. slots' = mem /\ mem' = doc
        BY <1>2, <2>5
    <2>8. Driven(request[w])' = With(slots', r.unit, mem'[r.unit])
        BY <2>1, <2>5 DEF Driven, With
    <2>9. Driven(request[w])' = doc
        BY <2>6, <2>7, <2>8
    <2> QED
        BY <2>5, <2>6, <2>9, LockChange
<1>4. ASSUME NEW u \in Units, DeleteUnit(w, u)
      PROVE  LockInvariant'
    <2>1. Change(w, Without(mem, {u})) /\ Begins(w, "delete", u, NoName)
        BY <1>4 DEF DeleteUnit
    <2>2. request'[w].kind = "delete" /\ request'[w].unit = u
        BY <2>1 DEF Begins, TypeOK
    <2>3. Driven(request[w])' = Without(slots', {u})
        BY <2>2 DEF Driven, Without
    <2>4. Driven(request[w])' = Without(mem, {u})
        BY <1>2, <2>1, <2>3
    <2>5. KeepsKeys(mem, Without(mem, {u}))
        BY DEF KeepsKeys, Without
    <2> QED
        BY <2>1, <2>4, <2>5, LockChange
<1>5. ASSUME NEW u \in Units, NEW name \in Names, RenameUnit(w, u, name)
      PROVE  LockInvariant'
    <2>1. Change(w, [mem EXCEPT ![u].name = name]) /\ Begins(w, "rename", u, name) /\ u \in DOMAIN mem
        BY <1>5 DEF RenameUnit, Begins
    <2>2. request'[w].kind = "rename" /\ request'[w].unit = u /\ request'[w].name = name
        BY <2>1 DEF Begins, TypeOK
    <2>3. Driven(request[w])' = [slots' EXCEPT ![u].name = name]
        BY <2>2 DEF Driven
    <2>4. Driven(request[w])' = [mem EXCEPT ![u].name = name]
        BY <1>2, <2>1, <2>3
    <2>5. KeepsKeys(mem, [mem EXCEPT ![u].name = name])
        <3>1. \A x \in DOMAIN mem : mem[x] \in Entry
            BY DocumentParts DEF TypeOK
        <3> QED
            BY <2>1, <3>1 DEF KeepsKeys, Entry
    <2> QED
        BY <2>1, <2>4, <2>5, LockChange
<1>6. CASE TellManager(w)
    <2>1. /\ UNCHANGED <<mem, prev, cli, stage>> /\ pc[w] = "saved"
          /\ pc' = [pc EXCEPT ![w] = "idle"] /\ slots' = Driven(request[w])
        BY <1>6 DEF TellManager, cliVars
    <2>2. w \in Holding /\ Holding' = {}
        BY <2>1 DEF Holding, TypeOK, LockInvariant, OneAtATime
    <2>3. slots' = mem'
        BY <2>1, <2>2 DEF LockInvariant, StepBehind
    <2>4. \A v \in Workers : pc'[v] = "changed" <=> pc[v] = "changed"
        BY <2>1 DEF TypeOK
    <2>5. OneAtATime'
        BY <2>1, <2>2, <2>4 DEF LockInvariant, OneAtATime
    <2>6. StepBehind'
        BY <2>1, <2>2, <2>3 DEF LockInvariant, StepBehind, KeepsKeys
    <2> QED
        BY <2>5, <2>6 DEF LockInvariant
<1> QED
    BY <1>1, <1>3, <1>4, <1>5, <1>6

LEMMA LockCommand ==
    ASSUME TypeOK, LockInvariant,
           \/ \E command \in {"pair", "fetch"} : CliLoads(command)
           \/ \E found, typed \in SUBSET Units : PairSaves(found, typed)
           \/ \E got \in SUBSET Units : FetchSaves(got)
           \/ CliEnds
    PROVE  LockInvariant'
<1>1. UNCHANGED <<pc, request, mem, prev, slots>>
    BY DEF CliLoads, PairSaves, FetchSaves, CliEnds, serverVars
<1>2. stage'["server"] = stage["server"]
    BY DEF CliLoads, PairSaves, FetchSaves, CliEnds, TypeOK, Procs
<1>3. cli' = "idle" => stage'["cli"] = "none"
    BY DEF CliLoads, PairSaves, FetchSaves, CliEnds, TypeOK, Procs
<1>4. Holding' = Holding /\ \A r : Driven(r)' = Driven(r)
    BY <1>1 DEF Holding, Driven
<1>5. OneAtATime'
    BY <1>1, <1>2, <1>3, <1>4 DEF LockInvariant, OneAtATime
<1>6. StepBehind'
    BY <1>1, <1>2, <1>4 DEF LockInvariant, StepBehind, KeepsKeys
<1> QED
    BY <1>5, <1>6 DEF LockInvariant

LEMMA LockWorld ==
    ASSUME TypeOK, LockInvariant,
           Restart \/ \E u \in Units, at \in Addresses \cup {Off} : Moves(u, at)
    PROVE  LockInvariant'
<1>1. CASE Restart
    <2>1. /\ prev' = mem' /\ slots' = mem' /\ UNCHANGED cli
          /\ pc' = [w \in Workers |-> "idle"]
          /\ stage' = [stage EXCEPT !["server"] = "none"]
        BY <1>1 DEF Restart, cliVars
    <2>2. stage'["server"] = "none" /\ stage'["cli"] = stage["cli"]
        BY <2>1 DEF TypeOK, Procs
    <2>3. Holding' = {} /\ \A w \in Workers : pc'[w] # "changed"
        BY <2>1 DEF Holding
    <2>4. OneAtATime'
        BY <2>1, <2>2, <2>3 DEF LockInvariant, OneAtATime
    <2>5. StepBehind'
        BY <2>1, <2>2, <2>3 DEF StepBehind, KeepsKeys
    <2> QED
        BY <2>4, <2>5 DEF LockInvariant
<1>2. ASSUME NEW u, NEW at, Moves(u, at)
      PROVE  LockInvariant'
    <2>1. UNCHANGED <<pc, request, mem, prev, slots, cli, stage>>
        BY <1>2 DEF Moves, serverVars, cliVars
    <2>2. Holding' = Holding /\ \A r : Driven(r)' = Driven(r)
        BY <2>1 DEF Holding, Driven
    <2>3. OneAtATime'
        BY <2>1, <2>2 DEF LockInvariant, OneAtATime
    <2>4. StepBehind'
        BY <2>1, <2>2 DEF LockInvariant, StepBehind, KeepsKeys
    <2> QED
        BY <2>3, <2>4 DEF LockInvariant
<1> QED
    BY <1>1, <1>2
-----------------------------------------------------------------------------
(* The file.                                                               *)

FileInvariant == Writers /\ OnFile /\ UpToDate

\* A step that leaves the files, and how far a save is with them, alone.
LEMMA FileStill ==
    ASSUME FileInvariant,
           UNCHANGED <<mem, prev, cli, copy, path, tmp, content, fd, stage, apart, behind, overlapped>>
    PROVE  FileInvariant'
BY DEF FileInvariant, Writers, OnFile, UpToDate, Whole, disk, ToSave, KeepsKeys

LEMMA FileInit == Init => FileInvariant
<1> SUFFICES ASSUME Init PROVE FileInvariant
    OBVIOUS
<1>1. mem \in Documents
    BY TypeInit DEF TypeOK
<1>2. 1 \in Nodes
    BY DEF Nodes
<1>3. disk = mem /\ Whole
    BY <1>1, <1>2, ConfigAssumption DEF Init, disk, Whole
<1> QED
    BY <1>3 DEF Init, FileInvariant, Writers, OnFile, UpToDate, Procs

LEMMA FileOpen ==
    ASSUME TypeOK, FileInvariant, NEW p \in Procs, Open(p)
    PROVE  FileInvariant'
<1> DEFINE q == Other(p)
<1>1. q \in Procs /\ q # p /\ \A r \in Procs : r = p \/ r = q
    BY ProcessPair DEF Procs
<1>2. tmp' \in Nodes /\ tmp' # path
    BY FreshNode DEF Open, TypeOK
<1>3. /\ UNCHANGED <<mem, prev, cli, copy, path, apart, behind>>
      /\ stage[p] = "ready" /\ stage' = [stage EXCEPT ![p] = "open"]
      /\ fd' = [fd EXCEPT ![p] = tmp'] /\ content' = [content EXCEPT ![tmp'] = Torn]
      /\ overlapped' = (overlapped \/ stage[q] \in {"open", "written"})
    BY DEF Open, serverVars, cliVars
<1> HIDE DEF q
<1>4. disk' = disk
    BY <1>2, <1>3 DEF disk, TypeOK
<1>5. stage'[p] = "open" /\ stage'[q] = stage[q] /\ fd'[p] = tmp' /\ fd'[q] = fd[q]
    BY <1>1, <1>3 DEF TypeOK
<1>6. Writers'
    BY <1>1, <1>2, <1>3, <1>5, NodesAreNumbers DEF FileInvariant, Writers
<1>7. OnFile'
    <2>1. stage'["server"] \in {"ready", "open", "written"}
              <=> stage["server"] \in {"ready", "open", "written"}
        BY <1>1, <1>3, <1>5 DEF Procs
    <2> QED
        BY <1>3, <1>4, <2>1 DEF FileInvariant, OnFile, Whole
<1>8. UpToDate'
    BY <1>3, <1>4 DEF FileInvariant, UpToDate, KeepsKeys
<1> QED
    BY <1>6, <1>7, <1>8 DEF FileInvariant

LEMMA FileWrite ==
    ASSUME TypeOK, FileInvariant, NEW p \in Procs, Write(p)
    PROVE  FileInvariant'
<1> DEFINE q == Other(p)
<1>1. q \in Procs /\ q # p /\ \A r \in Procs : r = p \/ r = q
    BY ProcessPair DEF Procs
<1>2. /\ UNCHANGED <<mem, prev, cli, copy, path, tmp, apart, behind, overlapped>>
      /\ stage[p] = "open" /\ stage' = [stage EXCEPT ![p] = "written"]
      /\ fd' = [fd EXCEPT ![p] = NoNode]
      /\ fd[p] # fd[q] => content' = [content EXCEPT ![fd[p]] = ToSave(p)]
    BY DEF Write, serverVars, cliVars, histVars
<1> HIDE DEF q
<1>3. stage'[p] = "written" /\ stage'[q] = stage[q] /\ fd'[p] = NoNode /\ fd'[q] = fd[q]
    BY <1>1, <1>2 DEF TypeOK
<1>4. ASSUME ~overlapped
      PROVE  /\ stage[q] \notin {"open", "written"}
             /\ tmp \in Nodes /\ tmp # path
             /\ content' = [content EXCEPT ![tmp] = ToSave(p)]
    <2>1. stage[q] \notin {"open", "written"} /\ fd[q] = NoNode
        BY <1>1, <1>2, <1>4 DEF FileInvariant, Writers
    <2>2. fd[p] = tmp /\ tmp # NoNode
        BY <1>2, <1>4 DEF FileInvariant, Writers
    <2> QED
        BY <1>2, <2>1, <2>2 DEF TypeOK
<1>5. ToSave(p)' = ToSave(p)
    BY <1>2 DEF ToSave
<1>6. Writers'
    <2>1. \A r \in Procs : stage'[r] # "open" => fd'[r] = NoNode
        BY <1>1, <1>3 DEF FileInvariant, Writers
    <2>2. ASSUME ~overlapped PROVE content'[tmp] = ToSave(p) /\ tmp # NoNode
        BY <1>4, <2>2, NodesAreNumbers DEF TypeOK
    <2> QED
        BY <1>1, <1>2, <1>3, <1>4, <1>5, <2>1, <2>2 DEF FileInvariant, Writers
<1>7. ~overlapped => disk' = disk
    BY <1>2, <1>4 DEF disk, TypeOK
<1>8. OnFile'
    <2>1. stage'["server"] \in {"ready", "open", "written"}
              <=> stage["server"] \in {"ready", "open", "written"}
        BY <1>1, <1>2, <1>3 DEF Procs
    <2> QED
        BY <1>2, <1>7, <2>1 DEF FileInvariant, OnFile, Whole
<1>9. UpToDate'
    BY <1>2, <1>7 DEF FileInvariant, UpToDate, KeepsKeys
<1> QED
    BY <1>6, <1>8, <1>9 DEF FileInvariant

\* The file that is renamed into place has what its process saves.
LEMMA Replaced ==
    ASSUME TypeOK, FileInvariant, NEW p \in Procs, Replace(p), ~overlapped
    PROVE  disk' = ToSave(p) /\ disk' \in Documents
<1>1. stage[p] = "written" /\ path' = tmp /\ content' = [content EXCEPT ![path] = Torn]
    BY DEF Replace
<1>2. content[tmp] = ToSave(p) /\ tmp # path
    BY <1>1 DEF FileInvariant, Writers, TypeOK
<1>3. disk' = ToSave(p)
    BY <1>1, <1>2 DEF disk, TypeOK, Replace
<1> QED
    BY <1>3 DEF ToSave, TypeOK

LEMMA FileReplace ==
    ASSUME TypeOK, LockInvariant, FileInvariant, NEW p \in Procs, Replace(p)
    PROVE  FileInvariant'
<1> DEFINE q == Other(p)
<1>1. q \in Procs /\ q # p /\ \A r \in Procs : r = p \/ r = q
    BY ProcessPair DEF Procs
<1> HIDE DEF q
<1>2. /\ UNCHANGED <<mem, prev, cli, copy, fd, overlapped>>
      /\ stage[p] = "written" /\ stage' = [stage EXCEPT ![p] = "renamed"]
      /\ apart' = IF p = "server" THEN {} ELSE apart \cup {"foreign"}
      /\ behind' = (behind \/ (p = "server" /\ cli # "idle"))
    BY DEF Replace, serverVars, cliVars
<1>3. stage'[p] = "renamed" /\ stage'[q] = stage[q]
    BY <1>1, <1>2 DEF TypeOK
<1>4. ~overlapped => stage[q] \notin {"open", "written"}
    BY <1>1, <1>2 DEF FileInvariant, Writers
<1>5. Writers'
    BY <1>1, <1>2, <1>3, <1>4 DEF FileInvariant, Writers
<1>6. ASSUME ~overlapped PROVE disk' = ToSave(p) /\ disk' # Torn
    BY <1>6, Replaced, ConfigAssumption
<1>7. OnFile'
    <2>1. apart' = {} => p = "server"
        BY <1>2
    <2> QED
        BY <1>2, <1>3, <1>6, <2>1 DEF OnFile, Whole, ToSave
<1>8. UpToDate'
    <2>1. p # "server" /\ ~overlapped => disk' = copy'
        BY <1>2, <1>6 DEF ToSave
    <2> QED
        BY <1>2, <2>1 DEF UpToDate, KeepsKeys
<1> QED
    BY <1>5, <1>7, <1>8 DEF FileInvariant

\* A process that is done with its save, one way or the other: it writes no file, and
\* the other goes on.
LEMMA WriterLeaves ==
    ASSUME TypeOK, FileInvariant, NEW p \in Procs, NEW s \in {"none", "ready"},
           stage[p] \notin {"open", "written"} \/ s = "none",
           UNCHANGED <<tmp, content, overlapped>>, ToSave(Other(p))' = ToSave(Other(p)),
           stage' = [stage EXCEPT ![p] = s], UNCHANGED fd \/ fd' = [fd EXCEPT ![p] = NoNode],
           fd'[p] = NoNode
    PROVE  Writers'
<1> DEFINE q == Other(p)
<1>1. q \in Procs /\ q # p /\ \A r \in Procs : r = p \/ r = q
    BY ProcessPair DEF Procs
<1>2. stage'[p] = s /\ stage'[q] = stage[q] /\ fd'[q] = fd[q]
    BY <1>1 DEF TypeOK
<1>3. ToSave(q)' = ToSave(q)
    OBVIOUS
<1> HIDE DEF q
<1> QED
    BY <1>1, <1>2, <1>3 DEF FileInvariant, Writers

LEMMA FileSaved ==
    ASSUME TypeOK, FileInvariant, NEW p \in Procs, Saved(p)
    PROVE  FileInvariant'
<1>1. /\ UNCHANGED <<mem, path, tmp, content, fd, apart, overlapped>>
      /\ stage[p] = "renamed" /\ stage' = [stage EXCEPT ![p] = "none"]
    BY DEF Saved, fileVars
<1>2. stage'[p] = "none" /\ fd'[p] = NoNode
    BY <1>1 DEF TypeOK, FileInvariant, Writers
<1>3. disk' = disk
    BY <1>1 DEF disk
<1>4. CASE p = "server"
    <2>1. prev' = mem /\ UNCHANGED <<cli, copy, behind>>
        BY <1>4 DEF Saved, cliVars
    <2>2. ToSave(Other(p))' = ToSave(Other(p))
        BY <1>1, <2>1 DEF ToSave
    <2>3. Writers'
        BY <1>1, <1>2, <2>2, WriterLeaves
    <2>4. OnFile'
        BY <1>1, <1>2, <1>3, <1>4 DEF FileInvariant, OnFile, Whole
    <2>5. UpToDate'
        BY <1>1, <1>3, <2>1 DEF FileInvariant, UpToDate, KeepsKeys
    <2> QED
        BY <2>3, <2>4, <2>5 DEF FileInvariant
<1>5. CASE p = "cli"
    <2>1. cli' = "idle" /\ prev' = prev
        BY <1>5 DEF Saved
    <2>2. ToSave(Other(p))' = ToSave(Other(p))
        BY <1>1, <1>5, ProcessPair DEF ToSave, Procs
    <2>3. Writers'
        BY <1>1, <1>2, <2>2, WriterLeaves
    <2>4. stage'["server"] = stage["server"]
        BY <1>1, <1>5 DEF TypeOK, Procs
    <2>5. OnFile'
        BY <1>1, <1>3, <2>1, <2>4 DEF FileInvariant, OnFile, Whole
    <2>6. UpToDate'
        BY <2>1 DEF UpToDate
    <2> QED
        BY <2>3, <2>5, <2>6 DEF FileInvariant
<1> QED
    BY <1>4, <1>5 DEF Procs

LEMMA FileFails ==
    ASSUME TypeOK, FileInvariant, SaveFails
    PROVE  FileInvariant'
<1>1. ASSUME NEW p \in Procs, Fails(p)
      PROVE  /\ UNCHANGED <<path, tmp, content, overlapped>>
             /\ stage' = [stage EXCEPT ![p] = "none"] /\ stage[p] # "none"
             /\ fd' = [fd EXCEPT ![p] = NoNode] /\ fd'[p] = NoNode
             /\ disk' = disk
             /\ apart' = IF p = "server" /\ stage[p] = "renamed" THEN {"late"} ELSE apart
    BY <1>1 DEF Fails, disk, TypeOK
<1>2. {"server", "cli"} = Procs
    BY DEF Procs
<1>3. CASE Fails("server") /\ ServerGivesUp(prev) /\ UNCHANGED <<cliVars, behind>>
    <2>1. mem' = prev /\ UNCHANGED <<cli, copy, behind>>
        BY <1>3 DEF ServerGivesUp, cliVars
    <2>2. ToSave(Other("server"))' = ToSave(Other("server"))
        BY <2>1, <1>2, ProcessPair DEF ToSave
    <2>3. Writers'
        BY <1>1, <1>2, <1>3, <2>2, WriterLeaves
    <2>4. stage'["server"] = "none"
        BY <1>1, <1>2, <1>3 DEF TypeOK
    <2>5. apart' = {} => /\ apart = {}
                         /\ stage["server"] \in {"ready", "open", "written"}
        BY <1>1, <1>2, <1>3 DEF TypeOK
    <2>6. OnFile'
        BY <1>1, <1>2, <1>3, <2>1, <2>4, <2>5 DEF FileInvariant, OnFile, Whole
    <2>7. UpToDate'
        BY <1>1, <1>2, <1>3, <2>1 DEF FileInvariant, UpToDate, KeepsKeys
    <2> QED
        BY <2>3, <2>6, <2>7 DEF FileInvariant
<1>4. CASE Fails("cli") /\ CliGivesUp /\ UNCHANGED <<mem, prev, pc, request>>
    <2>1. cli' = "idle" /\ UNCHANGED <<mem, prev>>
        BY <1>4 DEF CliGivesUp
    <2>2. ToSave(Other("cli"))' = ToSave(Other("cli"))
        BY <2>1, <1>2, ProcessPair DEF ToSave
    <2>3. Writers'
        BY <1>1, <1>2, <1>4, <2>2, WriterLeaves
    <2>4. stage'["server"] = stage["server"] /\ apart' = apart
        BY <1>1, <1>2, <1>4 DEF TypeOK
    <2>5. OnFile'
        BY <1>1, <1>2, <1>4, <2>1, <2>4 DEF FileInvariant, OnFile, Whole
    <2>6. UpToDate'
        BY <2>1 DEF UpToDate
    <2> QED
        BY <2>3, <2>5, <2>6 DEF FileInvariant
<1> QED
    BY <1>3, <1>4 DEF SaveFails

LEMMA FileRoutes ==
    ASSUME TypeOK, LockInvariant, FileInvariant, NEW w \in Workers,
           \/ \E at \in Addresses, key \in BOOLEAN, name \in Names \cup {NoName} :
                 AddFinds(w, at, key, name)
           \/ AddStores(w)
           \/ \E u \in Units : DeleteUnit(w, u) \/ \E name \in Names : RenameUnit(w, u, name)
           \/ TellManager(w)
    PROVE  FileInvariant'
<1>1. ASSUME NEW doc, Change(w, doc) PROVE FileInvariant'
    <2>1. /\ prev' = mem /\ UNCHANGED <<cli, copy, path, tmp, content, fd, apart, behind, overlapped>>
          /\ stage' = [stage EXCEPT !["server"] = "ready"]
        BY <1>1 DEF Change, cliVars, fileVars, histVars
    <2>2. Holding = {}
        BY <1>1 DEF Change, Locked, Holding
    <2>3. stage["server"] = "none" /\ "server" \in Procs
        BY <2>2 DEF LockInvariant, OneAtATime, Holding, Procs
    <2>4. fd'["server"] = NoNode
        BY <2>1, <2>3 DEF FileInvariant, Writers
    <2>5. ToSave(Other("server"))' = ToSave(Other("server"))
        BY <2>1, <2>3, ProcessPair DEF ToSave
    <2>6. Writers'
        BY <2>1, <2>3, <2>4, <2>5, WriterLeaves
    <2>7. disk' = disk /\ stage'["server"] = "ready"
        BY <2>1, <2>3 DEF disk, TypeOK
    <2>8. OnFile'
        BY <2>1, <2>3, <2>7 DEF FileInvariant, OnFile, Whole
    <2>9. UpToDate'
        BY <2>1, <2>7 DEF FileInvariant, UpToDate, KeepsKeys
    <2> QED
        BY <2>6, <2>8, <2>9 DEF FileInvariant
<1>2. CASE TellManager(w) \/ \E at \in Addresses, key \in BOOLEAN, name \in Names \cup {NoName} :
                                AddFinds(w, at, key, name)
    <2>1. UNCHANGED <<mem, prev, cli, copy, path, tmp, content, fd, stage, apart, behind, overlapped>>
        BY <1>2 DEF TellManager, AddFinds, cliVars, fileVars, histVars
    <2> QED
        BY <2>1, FileStill
<1> QED
    BY <1>1, <1>2 DEF AddStores, DeleteUnit, RenameUnit

LEMMA FileCommand ==
    ASSUME TypeOK, LockInvariant, FileInvariant,
           \/ \E command \in {"pair", "fetch"} : CliLoads(command)
           \/ \E found, typed \in SUBSET Units : PairSaves(found, typed)
           \/ \E got \in SUBSET Units : FetchSaves(got)
           \/ CliEnds
    PROVE  FileInvariant'
<1>1. UNCHANGED <<mem, prev, path, tmp, content, apart, overlapped>> /\ disk' = disk
    BY DEF CliLoads, PairSaves, FetchSaves, CliEnds, serverVars, fileVars, histVars, disk
<1>2. "cli" \in Procs /\ "server" \in Procs
    BY DEF Procs
<1>3. ToSave(Other("cli"))' = ToSave(Other("cli"))
    BY <1>1, <1>2, ProcessPair DEF ToSave, Procs
<1>4. stage'["server"] = stage["server"]
    BY <1>2 DEF CliLoads, PairSaves, FetchSaves, CliEnds, TypeOK
<1>5. OnFile'
    BY <1>1, <1>4 DEF FileInvariant, OnFile, Whole
<1>6. ASSUME NEW command \in {"pair", "fetch"}, CliLoads(command)
      PROVE  FileInvariant'
    <2>1. UNCHANGED <<fd, stage, behind>> /\ cli = "idle" /\ copy' = IF Whole THEN disk ELSE Empty
        BY <1>6 DEF CliLoads, fileVars, histVars
    <2>2. stage["cli"] = "none"
        BY <2>1 DEF LockInvariant, OneAtATime
    <2>3. fd'["cli"] = NoNode
        BY <1>2, <2>1, <2>2 DEF FileInvariant, Writers
    <2>4. stage' = [stage EXCEPT !["cli"] = "none"]
        BY <2>1, <2>2 DEF TypeOK
    <2>5. Writers'
        BY <1>1, <1>2, <1>3, <2>1, <2>3, <2>4, WriterLeaves
    <2>6. ~overlapped => copy' = disk
        BY <2>1 DEF FileInvariant, OnFile
    <2>7. UpToDate'
        BY <1>1, <2>6 DEF UpToDate, KeepsKeys
    <2> QED
        BY <1>5, <2>5, <2>7 DEF FileInvariant
<1>7. ASSUME stage["cli"] = "none", stage' = [stage EXCEPT !["cli"] = "ready"], UNCHANGED fd
      PROVE  Writers'
    <2>1. fd'["cli"] = NoNode
        BY <1>2, <1>7 DEF FileInvariant, Writers
    <2> QED
        BY <1>1, <1>2, <1>3, <1>7, <2>1, WriterLeaves
<1>8. ASSUME UNCHANGED <<cli, behind>>, DOMAIN copy \subseteq DOMAIN copy',
             \A u \in DOMAIN copy : copy[u].key => copy'[u].key
      PROVE  UpToDate'
    BY <1>1, <1>8 DEF FileInvariant, UpToDate, KeepsKeys
<1>9. ASSUME NEW found, NEW typed, PairSaves(found, typed)
      PROVE  FileInvariant'
    <2>1. /\ stage["cli"] = "none" /\ stage' = [stage EXCEPT !["cli"] = "ready"]
          /\ UNCHANGED <<fd, cli, behind>>
        BY <1>9 DEF PairSaves, fileVars, histVars
    <2>2. copy' = [u \in DOMAIN copy \cup found |->
              IF u \notin found THEN copy[u]
              ELSE [at   |-> lives[u],
                    key  |-> u \in typed \/ (u \in DOMAIN copy /\ copy[u].key),
                    name |-> NameFor(copy, u, NoName)]]
        BY <1>9 DEF PairSaves
    <2>3. DOMAIN copy \subseteq DOMAIN copy'
        BY <2>2
    <2>4. \A u \in DOMAIN copy : copy[u].key => copy'[u].key
        BY <2>2
    <2> QED
        BY <1>5, <1>7, <1>8, <2>1, <2>3, <2>4 DEF FileInvariant
<1>10. ASSUME NEW got, FetchSaves(got)
       PROVE  FileInvariant'
    <2>1. /\ stage["cli"] = "none" /\ stage' = [stage EXCEPT !["cli"] = "ready"]
          /\ UNCHANGED <<fd, cli, behind>>
          /\ copy' = [u \in DOMAIN copy |-> [copy[u] EXCEPT !.key = @ \/ u \in got]]
        BY <1>10 DEF FetchSaves, fileVars, histVars
    <2>2. \A u \in DOMAIN copy : copy[u] \in Entry
        BY DocumentParts DEF TypeOK
    <2>3. \A u \in DOMAIN copy : copy[u].key => copy'[u].key
        BY <2>1, <2>2 DEF Entry
    <2> QED
        BY <1>5, <1>7, <1>8, <2>1, <2>3 DEF FileInvariant
<1>11. CASE CliEnds
    <2>1. cli' = "idle" /\ stage' = [stage EXCEPT !["cli"] = "none"] /\ fd' = [fd EXCEPT !["cli"] = NoNode]
        BY <1>11 DEF CliEnds
    <2>2. fd'["cli"] = NoNode
        BY <1>2, <2>1 DEF TypeOK
    <2>3. Writers'
        BY <1>1, <1>2, <1>3, <2>1, <2>2, WriterLeaves
    <2>4. UpToDate'
        BY <2>1 DEF UpToDate
    <2> QED
        BY <1>5, <2>3, <2>4 DEF FileInvariant
<1> QED
    BY <1>6, <1>9, <1>10, <1>11

LEMMA FileWorld ==
    ASSUME TypeOK, FileInvariant,
           Restart \/ \E u \in Units, at \in Addresses \cup {Off} : Moves(u, at)
    PROVE  FileInvariant'
<1>1. CASE Restart
    <2>1. /\ UNCHANGED <<cli, copy, path, tmp, content, behind, overlapped>> /\ disk' = disk
          /\ mem' = IF Whole THEN disk ELSE Empty
          /\ stage' = [stage EXCEPT !["server"] = "none"] /\ fd' = [fd EXCEPT !["server"] = NoNode]
        BY <1>1 DEF Restart, cliVars, disk
    <2>2. "server" \in Procs /\ stage'["server"] = "none" /\ fd'["server"] = NoNode
        BY <2>1 DEF TypeOK, Procs
    <2>3. ToSave(Other("server"))' = ToSave(Other("server"))
        BY <2>1, <2>2, ProcessPair DEF ToSave
    <2>4. Writers'
        BY <2>1, <2>2, <2>3, WriterLeaves
    <2>5. OnFile'
        BY <2>1, <2>2 DEF FileInvariant, OnFile, Whole
    <2>6. UpToDate'
        BY <2>1 DEF FileInvariant, UpToDate, KeepsKeys
    <2> QED
        BY <2>4, <2>5, <2>6 DEF FileInvariant
<1>2. ASSUME NEW u, NEW at, Moves(u, at)
      PROVE  FileInvariant'
    <2>1. UNCHANGED <<mem, prev, cli, copy, path, tmp, content, fd, stage, apart, behind, overlapped>>
        BY <1>2 DEF Moves, serverVars, cliVars, fileVars, histVars
    <2> QED
        BY <2>1, FileStill
<1> QED
    BY <1>1, <1>2
-----------------------------------------------------------------------------
(* The theorems.                                                           *)

ConfigInvariant == TypeOK /\ FoundAdds /\ LockInvariant /\ FileInvariant

LEMMA InvariantInit == Init => ConfigInvariant
BY TypeInit, LockInit, FileInit DEF ConfigInvariant

LEMMA InvariantStep ==
    ASSUME ConfigInvariant, [Next]_vars
    PROVE  ConfigInvariant'
<1> USE DEF ConfigInvariant
<1>1. ASSUME NEW p \in Procs, Save(p) PROVE ConfigInvariant'
    BY <1>1, TypeSave, LockSave, FileOpen, FileWrite, FileReplace, FileSaved DEF Save
<1>2. CASE SaveFails
    BY <1>2, TypeFails, LockFails, FileFails
<1>3. ASSUME NEW w \in Workers,
             \/ \E at \in Addresses, key \in BOOLEAN, name \in Names \cup {NoName} :
                   AddFinds(w, at, key, name)
             \/ AddStores(w)
             \/ \E u \in Units : DeleteUnit(w, u) \/ \E name \in Names : RenameUnit(w, u, name)
             \/ TellManager(w)
      PROVE  ConfigInvariant'
    <2>1. pc[w] = "saved" => Driven(request[w]) = mem
        BY DEF LockInvariant, StepBehind, Holding
    <2>2. TypeOK' /\ FoundAdds'
        BY <1>3, <2>1, TypeRoutes
    <2>3. LockInvariant' /\ FileInvariant'
        BY <1>3, LockRoutes, FileRoutes
    <2> QED
        BY <2>2, <2>3
<1>4. CASE \/ \E command \in {"pair", "fetch"} : CliLoads(command)
           \/ \E found, typed \in SUBSET Units : PairSaves(found, typed)
           \/ \E got \in SUBSET Units : FetchSaves(got)
           \/ CliEnds
    BY <1>4, TypeCommand, LockCommand, FileCommand
<1>5. CASE Restart \/ \E u \in Units, at \in Addresses \cup {Off} : Moves(u, at)
    BY <1>5, TypeWorld, LockWorld, FileWorld
<1>6. CASE UNCHANGED vars
    <2>1. FileInvariant'
        BY <1>6, FileStill DEF vars, serverVars, cliVars, fileVars, histVars
    <2>2. Holding' = Holding /\ \A r : Driven(r)' = Driven(r)
        BY <1>6 DEF vars, serverVars, Holding, Driven
    <2>3. LockInvariant'
        BY <1>6, <2>2 DEF vars, serverVars, cliVars, LockInvariant, OneAtATime, StepBehind, KeepsKeys
    <2>4. TypeOK' /\ FoundAdds'
        BY <1>6 DEF vars, serverVars, cliVars, fileVars, histVars, TypeOK, FoundAdds
    <2> QED
        BY <2>1, <2>3, <2>4
<1> QED
    BY <1>1, <1>2, <1>3, <1>4, <1>5, <1>6 DEF Next, Rest

THEOREM InvariantHolds == Spec => []ConfigInvariant
BY InvariantInit, InvariantStep, PTL DEF Spec

\* Every variable of Config holds a value of its kind: all that is listed, driven, copied
\* and on file are documents, or files that no name leads to.
THEOREM TypeCorrect == Spec => []TypeOK
<1>1. ConfigInvariant => TypeOK
    BY DEF ConfigInvariant
<1> QED
    BY InvariantHolds, <1>1, PTL

\* upsert, rename and remove: whenever nobody holds the configuration, the manager drives
\* what it lists, by what it lists.
THEOREM ManagerAgrees == Spec => []DrivenAsListed
<1>1. ConfigInvariant => DrivenAsListed
    <2>1. ~Locked => Holding = {}
        BY DEF Locked, Holding
    <2> QED
        BY <2>1 DEF ConfigInvariant, LockInvariant, StepBehind, DrivenAsListed
<1> QED
    BY InvariantHolds, <1>1, PTL

\* save and rename_unit: the file is a whole document at every moment, and what a restart
\* would load is what is listed or, in the middle of a change, what was.
THEOREM FileWholeAndCurrent == Spec => []ListedSurvives
<1>1. ConfigInvariant => ListedSurvives
    BY DEF ConfigInvariant, FileInvariant, OnFile, ListedSurvives
<1> QED
    BY InvariantHolds, <1>1, PTL

\* add_or_update_unit: a save of an up-to-date copy loses no unit's credentials.
THEOREM CredentialsKept == Spec => KeysKept
<1> DEFINE Keeps(p) ==
               stage[p] = "written" /\ stage'[p] = "renamed" /\ ~overlapped
               /\ (p = "server" => apart = {}) /\ (p = "cli" => ~behind) =>
                  \A u \in DOMAIN disk \cap DOMAIN disk' : disk[u].key => disk'[u].key
<1>1. ASSUME ConfigInvariant, NEW p \in Procs, Replace(p) PROVE Keeps(p)
    <2> SUFFICES ASSUME stage[p] = "written", ~overlapped, p = "server" => apart = {},
                        p = "cli" => ~behind
                 PROVE  KeepsKeys(disk, disk')
        BY DEF KeepsKeys
    <2>1. disk' = ToSave(p)
        BY <1>1, Replaced DEF ConfigInvariant
    <2>2. CASE p = "server"
        <3>1. disk = prev /\ disk' = mem
            BY <1>1, <2>1, <2>2 DEF ConfigInvariant, FileInvariant, OnFile, ToSave
        <3> QED
            BY <1>1, <3>1 DEF ConfigInvariant, LockInvariant, StepBehind
    <2>3. CASE p = "cli"
        <3>1. cli # "idle" /\ disk' = copy
            BY <1>1, <2>1, <2>3 DEF ConfigInvariant, LockInvariant, OneAtATime, ToSave
        <3> QED
            BY <1>1, <2>3, <3>1 DEF ConfigInvariant, FileInvariant, UpToDate
    <2> QED
        BY <2>2, <2>3 DEF Procs
<1>2. ASSUME ConfigInvariant, NEW p \in Procs, [Next]_vars, stage[p] = "written", stage'[p] = "renamed"
      PROVE  Replace(p)
    <2>1. TypeOK /\ stage'[p] # stage[p] /\ Procs = {"server", "cli"}
        BY <1>2 DEF ConfigInvariant, Procs
    <2>2. \E q \in Procs : Save(q)
        <3>1. \/ \E q \in Procs, s \in {"none", "ready"} : stage' = [stage EXCEPT ![q] = s]
              \/ stage' = stage
              \/ \E q \in Procs : Save(q)
            BY <1>2, <2>1 DEF Next, SaveFails, Fails, AddFinds, AddStores, DeleteUnit, RenameUnit,
                              Change, TellManager, CliLoads, PairSaves, FetchSaves, CliEnds,
                              Restart, Moves, Rest, vars
        <3> QED
            BY <1>2, <2>1, <3>1 DEF TypeOK
    <2>3. PICK q \in Procs : Save(q)
        BY <2>2
    <2>4. \E s \in {"none", "open", "written", "renamed"} : stage' = [stage EXCEPT ![q] = s]
        BY <2>3 DEF Save, Open, Write, Replace, Saved
    <2>5. q = p
        BY <2>1, <2>4 DEF TypeOK
    <2> QED
        BY <1>2, <2>1, <2>3, <2>5 DEF Save, Open, Write, Saved, TypeOK
<1>3. ConfigInvariant /\ [Next]_vars => [\A p \in Procs : Keeps(p)]_vars
    BY <1>1, <1>2
<1> QED
    BY InvariantHolds, <1>3, PTL DEF Spec, KeysKept
=============================================================================
