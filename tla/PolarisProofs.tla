---------------------------- MODULE PolarisProofs ----------------------------
(* Proofs about Polaris for every value of its constants. *)
EXTENDS Polaris, TLAPS

\* Where a signature comes from: announcements are whole, and the record kept
\* for a node carries a signature of that node over an address it had. A record
\* that is altered keeps that signature, which then tells it apart.
Signed ==
    /\ addr \in [Nodes -> Nat]
    /\ \A e \in announced : \E n \in Nodes :
          e.record.key = n /\ e.record.addr \in 1 .. addr[n] /\ Verifies(e)
    /\ registry = [n \in Nodes |-> registry[n]]
    /\ \A n \in Nodes : registry[n] = NoRecord
                        \/ (registry[n].sig.key = n /\ registry[n].sig.addr \in 1 .. addr[n])

\* No record is kept at the start.
LEMMA SignedInit == Init => Signed
<1> SUFFICES ASSUME Init PROVE Signed
  OBVIOUS
<1>1. addr \in [Nodes -> Nat] /\ \A n \in Nodes : addr[n] = 1
  BY DEF Init
<1>2. ASSUME NEW e \in announced
      PROVE  \E n \in Nodes : e.record.key = n /\ e.record.addr \in 1 .. addr[n] /\ Verifies(e)
  <2>1. PICK n \in Nodes : e = Sign([key |-> n, addr |-> 1])
    BY DEF Init, Announcement
  <2>2. QED
    BY <1>1, <2>1 DEF Sign, Verifies
<1>3. QED
  BY <1>1, <1>2 DEF Init, Signed

\* Each step keeps the invariant.
LEMMA SignedStep == Signed /\ [Next]_vars => Signed'
<1> SUFFICES ASSUME Signed, [Next]_vars PROVE Signed'
  OBVIOUS
<1>1. ASSUME UNCHANGED directoryVars PROVE Signed'
  BY <1>1 DEF Signed, directoryVars
<1>2. ASSUME NEW n \in Nodes, Boot(n) PROVE Signed'
  <2>1. /\ addr' \in [Nodes -> Nat] /\ addr'[n] = addr[n] + 1 /\ addr[n] \in Nat
        /\ \A k \in Nodes : 1 .. addr[k] \subseteq 1 .. addr'[k]
    BY <1>2 DEF Signed, Boot
  <2>2. ASSUME NEW e \in announced'
        PROVE  \E k \in Nodes : e.record.key = k /\ e.record.addr \in 1 .. addr'[k] /\ Verifies(e)
    <3>1. CASE e \in announced
      BY <2>1, <3>1 DEF Signed
    <3>2. CASE e = Sign([key |-> n, addr |-> addr[n] + 1])
      BY <2>1, <3>2 DEF Sign, Verifies
    <3>3. QED
      BY <1>2, <3>1, <3>2 DEF Boot, Announcement
  <2>3. registry' = registry
    BY <1>2 DEF Boot
  <2>4. QED
    BY <2>1, <2>2, <2>3 DEF Signed
<1>3. ASSUME NEW e \in announced, Register(e) PROVE Signed'
  <2>1. PICK n \in Nodes : e.record.key = n /\ e.record.addr \in 1 .. addr[n] /\ Verifies(e)
    BY DEF Signed
  <2>2. /\ announced' \subseteq announced /\ UNCHANGED addr
        /\ registry' = registry \/ registry' = [registry EXCEPT ![n] = e]
    BY <1>3, <2>1 DEF Register, Recorded
  <2>3. e.sig.key = n /\ e.sig.addr \in 1 .. addr[n]
    BY <2>1 DEF Verifies
  <2>4. QED
    BY <2>2, <2>3 DEF Signed
<1>4. ASSUME NEW n \in Nodes, Alter(n) PROVE Signed'
  \* The record may become any; its signature stays.
  <2>1. PICK r \in Records : registry' = [registry EXCEPT ![n].record = r]
    BY <1>4 DEF Alter
  <2>2. /\ registry[n].sig.key = n /\ registry[n].sig.addr \in 1 .. addr[n]
        /\ UNCHANGED <<addr, announced>>
    BY <1>4 DEF Alter, Signed
  <2>3. QED
    BY <2>1, <2>2 DEF Signed
<1>5. ASSUME NEW n \in Nodes,
             \/ Push(n) \/ \E r \in reports[n] : Ingest(n, r) \/ LoseReport(n, r)
             \/ \E p \in Peers : LinkChanges(n, p)
             \/ BlocksChange(n) \/ DaemonLogs(n) \/ DaemonTurns(n) \/ LinesExpire(n)
      PROVE  Signed'
  BY <1>1, <1>5 DEF Push, Ingest, LoseReport, LinkChanges, BlocksChange, DaemonLogs,
                    DaemonTurns, LinesExpire
<1>6. CASE UNCHANGED vars
  BY <1>1, <1>6 DEF vars
<1>7. QED
  BY <1>2, <1>3, <1>4, <1>5, <1>6 DEF Next

\* Whoever resolves a code gets an address its owner announced, or an error
\* (registry.ts:125-139), whatever became of the record at polaris.
THEOREM ResolvedOwnHolds == Spec => []ResolvedOwn
<1>1. Signed => ResolvedOwn
  <2> SUFFICES ASSUME Signed, NEW n \in Nodes, Accepts(n, registry[n])
               PROVE  registry[n].record.addr \in 1 .. addr[n]
    BY DEF ResolvedOwn
  <2>1. registry[n].record.key = n /\ registry[n].sig = registry[n].record
    BY DEF Accepts, Verifies
  <2>2. registry[n] # NoRecord
    BY <2>1, PolarisAssumption DEF NoRecord, Sign
  <2>3. QED
    BY <2>1, <2>2 DEF Signed
<1>2. QED
  BY <1>1, SignedInit, SignedStep, PTL DEF Spec
-----------------------------------------------------------------------------
(* Types.                                                                  *)

\* Every report was made of the peer table and the log, or has too many rows.
Reported ==
    /\ age \in [Nodes -> [Peers -> Ages]]
    /\ mayRead \in [Nodes -> BOOLEAN] /\ daemon \in [Nodes -> BOOLEAN]
    /\ crowded \in [Nodes -> BOOLEAN]
    /\ said \in [Nodes -> ReportRows] /\ feed \in [Nodes -> ReportRows]
    /\ reports \in [Nodes -> SUBSET (ReportRows \cup {Crowd})]

\* Every record was made by announce(), or altered into another.
Directory ==
    /\ addr \in [Nodes -> Addresses]
    /\ \A e \in announced : e.record \in Records
    /\ \A n \in Nodes : registry[n] = NoRecord \/ registry[n].record \in Records

\* Before the first report every line is silent.
LEMMA NothingIsRows == Nothing \in ReportRows
BY DEF Nothing, ReportRows

\* What collectLocal() makes of the peer table and the log is a report.
LEMMA CollectLocalType ==
    ASSUME Reported, NEW n \in Nodes
    PROVE  CollectLocal(n) \in ReportRows \cup {Crowd}
<1>1. said[n] \in [Peers -> States \cup {Silent}]
  BY DEF Reported, ReportRows
<1>2. ASSUME NEW a, NEW s PROVE Live(a, s) \in States
  BY DEF Live, Class, States
<1>3. CASE crowded[n]
  BY <1>3 DEF CollectLocal
<1>4. CASE ~crowded[n]
  <2>1. \A p \in Peers : (IF p \in ReadWg(n) THEN Live(age[n][p], said[n][p]) ELSE said[n][p])
                             \in States \cup {Silent}
    BY <1>1, <1>2
  <2>2. CollectLocal(n) = [p \in Peers |-> IF p \in ReadWg(n) THEN Live(age[n][p], said[n][p])
                                                               ELSE said[n][p]]
    BY <1>4 DEF CollectLocal
  <2>3. QED
    BY <2>1, <2>2 DEF ReportRows
<1>5. QED
  BY <1>3, <1>4

\* The reports and the feed keep their types.
LEMMA ReportedStep == Reported /\ [Next]_vars => Reported'
<1> SUFFICES ASSUME Reported, [Next]_vars PROVE Reported'
  OBVIOUS
<1>1. ASSUME UNCHANGED <<linkVars, feedVars>> PROVE Reported'
  BY <1>1 DEF Reported, linkVars, feedVars
<1>2. ASSUME NEW n \in Nodes, Push(n) PROVE Reported'
  <2>1. CollectLocal(n) \in ReportRows \cup {Crowd}
    BY CollectLocalType
  <2>2. reports' = [reports EXCEPT ![n] = @ \cup {CollectLocal(n)}]
    BY <1>2 DEF Push
  <2>3. reports' \in [Nodes -> SUBSET (ReportRows \cup {Crowd})]
    BY <2>1, <2>2 DEF Reported
  <2>4. QED
    BY <1>2, <2>3 DEF Push, Reported, linkVars
<1>3. ASSUME NEW n \in Nodes, NEW r \in reports[n], Ingest(n, r) \/ LoseReport(n, r) PROVE Reported'
  <2>1. r \in ReportRows \cup {Crowd}
    BY DEF Reported
  <2>2. reports' = [reports EXCEPT ![n] = @ \ {r}]
        /\ (feed' = feed \/ (Parses(r) /\ feed' = [feed EXCEPT ![n] = r]))
        /\ UNCHANGED linkVars
    BY <1>3 DEF Ingest, LoseReport, KeptLast
  <2>3. reports' \in [Nodes -> SUBSET (ReportRows \cup {Crowd})]
    BY <2>2 DEF Reported
  <2>4. feed' \in [Nodes -> ReportRows]
    BY <2>1, <2>2 DEF Reported, Parses
  <2>5. QED
    BY <2>2, <2>3, <2>4 DEF Reported, linkVars
<1>4. ASSUME NEW n \in Nodes, NEW p \in Peers, LinkChanges(n, p) PROVE Reported'
  <2>1. PICK a \in Ages : age' = [age EXCEPT ![n][p] = a]
    BY <1>4 DEF LinkChanges
  <2>2. age' \in [Nodes -> [Peers -> Ages]]
    BY <2>1 DEF Reported
  <2>3. QED
    BY <1>4, <2>2 DEF LinkChanges, Reported, feedVars
<1>5. ASSUME NEW n \in Nodes, BlocksChange(n) \/ DaemonTurns(n) PROVE Reported'
  BY <1>5 DEF BlocksChange, DaemonTurns, Reported, feedVars
<1>6. ASSUME NEW n \in Nodes, DaemonLogs(n) \/ LinesExpire(n) PROVE Reported'
  <2>1. \E line \in ReportRows : said' = [said EXCEPT ![n] = line]
    BY <1>6, NothingIsRows DEF DaemonLogs, LinesExpire, ReportRows
  <2>2. said' \in [Nodes -> ReportRows]
    BY <2>1 DEF Reported
  <2>3. QED
    BY <1>6, <2>2 DEF DaemonLogs, LinesExpire, Reported, feedVars
<1>7. ASSUME NEW n \in Nodes, Boot(n) PROVE Reported'
  BY <1>7 DEF Boot, Reported, feedVars
<1>8. ASSUME NEW n \in Nodes, Alter(n) PROVE Reported'
  BY <1>1, <1>8 DEF Alter
<1>9. ASSUME NEW e \in announced, Register(e) PROVE Reported'
  BY <1>1, <1>9 DEF Register
<1>10. CASE UNCHANGED vars
  BY <1>1, <1>10 DEF vars
<1>11. QED
  BY <1>2, <1>3, <1>4, <1>5, <1>6, <1>7, <1>8, <1>9, <1>10 DEF Next

\* The directory keeps its types.
LEMMA DirectoryStep == Signed /\ Directory /\ [Next]_vars => Directory'
<1> SUFFICES ASSUME Signed, Directory, [Next]_vars PROVE Directory'
  OBVIOUS
<1>1. ASSUME UNCHANGED directoryVars PROVE Directory'
  BY <1>1 DEF Directory, directoryVars
<1>2. ASSUME NEW n \in Nodes, Boot(n) PROVE Directory'
  <2>1. addr[n] \in Addresses /\ addr[n] + 1 \in Addresses
    BY <1>2, PolarisAssumption DEF Boot, Directory, Addresses
  <2>2. addr' \in [Nodes -> Addresses]
    BY <1>2, <2>1 DEF Boot, Directory
  <2>3. \A e \in announced' : e.record \in Records
    BY <1>2, <2>1 DEF Boot, Directory, Announcement, Sign, Records
  <2>4. QED
    BY <1>2, <2>2, <2>3 DEF Boot, Directory
<1>3. ASSUME NEW e \in announced, Register(e) PROVE Directory'
  <2>1. e.record \in Records
    BY DEF Directory
  <2>2. e.record.key \in Nodes
    BY DEF Signed
  <2>3. announced' \subseteq announced /\ UNCHANGED addr
        /\ (registry' = registry \/ registry' = [registry EXCEPT ![e.record.key] = e])
    BY <1>3 DEF Register, Recorded
  <2>4. \A n \in Nodes : registry'[n] = registry[n] \/ registry'[n] = e
    BY <2>2, <2>3 DEF Signed
  <2>5. QED
    BY <2>1, <2>3, <2>4 DEF Directory
<1>4. ASSUME NEW n \in Nodes, Alter(n) PROVE Directory'
  <2>1. PICK r \in Records : registry' = [registry EXCEPT ![n].record = r]
    BY <1>4 DEF Alter
  <2>2. registry[n] # NoRecord /\ registry'[n] = [registry[n] EXCEPT !.record = r]
    BY <1>4, <2>1 DEF Signed, Alter
  <2>3. \A k \in Nodes \ {n} : registry'[k] = registry[k]
    BY <2>1 DEF Signed
  <2>4. QED
    BY <1>4, <2>1, <2>2, <2>3 DEF Directory, Alter
<1>5. ASSUME NEW n \in Nodes,
             \/ Push(n) \/ \E r \in reports[n] : Ingest(n, r) \/ LoseReport(n, r)
             \/ \E p \in Peers : LinkChanges(n, p)
             \/ BlocksChange(n) \/ DaemonLogs(n) \/ DaemonTurns(n) \/ LinesExpire(n)
      PROVE  Directory'
  BY <1>1, <1>5 DEF Push, Ingest, LoseReport, LinkChanges, BlocksChange, DaemonLogs,
                    DaemonTurns, LinesExpire
<1>6. CASE UNCHANGED vars
  BY <1>1, <1>6 DEF vars
<1>7. QED
  BY <1>2, <1>3, <1>4, <1>5, <1>6 DEF Next

\* The peer table and the log give every report a state or silence for each peer
\* (sysinfo.ts, events.ts), and the feed takes no report of too many rows; the
\* directory holds records of one key and one address, with true signatures on
\* those that are on their way (registry.ts).
THEOREM TypeCorrect == Spec => []TypeOK
<1>1. Init => Reported
  BY NothingIsRows, PolarisAssumption DEF Init, Reported
<1>2. Init => Directory
  BY PolarisAssumption DEF Init, Directory, Addresses, Announcement, Sign, Records
<1>3. Reported /\ Directory /\ Signed => TypeOK
  <2> SUFFICES ASSUME Reported, Directory, Signed PROVE TypeOK
    OBVIOUS
  <2>1. \A e \in announced : Verifies(e) /\ e.record \in Records
    BY DEF Directory, Signed
  <2>2. QED
    BY <2>1 DEF Reported, Directory, TypeOK
<1>4. QED
  BY <1>1, <1>2, <1>3, ReportedStep, DirectoryStep, SignedInit, SignedStep, PTL DEF Spec
=============================================================================
