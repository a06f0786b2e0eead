------------------------------ MODULE Logger_proofs ------------------------------
(***************************************************************************)
(* Theorems about Logger: no line of the server is lost, no archive is     *)
(* overwritten and files are rotated in time, for any number of days,      *)
(* lines, tools, restarts and faults.                                      *)
(***************************************************************************)
EXTENDS Logger, SequenceTheorems, TLAPS

-----------------------------------------------------------------------------
(***************************************************************************)
(* The invariant.                                                          *)
(***************************************************************************)
Loggers ==
    [pc : {"down", "runs", "full", "archived", "closed"},
     file : Nat, date : 0..MaxDay, size : 0..PerOpening]

Archives == [lines : SUBSET Lines, whole : BOOLEAN]

Types ==
    /\ day \in Days
    /\ entry \in [Days -> Nat] /\ \A d \in Days : entry[d] <= Len(files)
    /\ files \in Seq(SUBSET Lines)
    /\ opens \in [1..Len(files) -> Nat] /\ bytes \in [1..Len(files) -> Nat]
    /\ archives \in [Days -> Seq(Archives)]
    /\ proc \in [Procs -> Loggers] /\ \A p \in Procs : proc[p].file <= Len(files)
    /\ lines \in [Procs -> Nat] /\ lines[Server] <= MaxLines
    /\ faults \in 0..MaxFaults

\* A tool never fills a file, so it never rotates one.
Small ==
    \A p \in Tools : /\ proc[p].pc \in {"down", "runs"}
                     /\ proc[p].size <= MaxLine * lines[p] /\ lines[p] <= ToolLines

OfServer(f) == {l \in files[f] : l[1] = Server}

\* In an archive that tar has finished.
Saved(l) ==
    \E d \in Days : \E k \in 1..Len(archives[d]) :
        archives[d][k].whole /\ l \in archives[d][k].lines

\* The server's entry stays that of its file until it is archived.
Rotates ==
    LET s == proc[Server]
    IN  /\ s.pc = "full" => s.file # 0
        /\ s.pc \in {"down", "archived", "closed"} => s.file = 0
        /\ s.file # 0 \/ s.pc = "archived" => s.date \in Days /\ entry[s.date] # 0
        /\ s.file # 0 => entry[s.date] = s.file
        /\ s.pc = "archived" => \A l \in OfServer(entry[s.date]) : Saved(l)
        /\ s.pc = "runs" /\ s.file # 0 => s.size < MaxSize

\* What the server adds between two openings is what it has counted.
Bounded ==
    /\ \A f \in 1..Len(files) : bytes[f] <= PerOpening * opens[f]
    /\ LET s == proc[Server]
       IN  s.file # 0 => /\ opens[s.file] > 0
                         /\ bytes[s.file] <= PerOpening * (opens[s.file] - 1) + s.size

Kept ==
    \A f \in 1..Len(files) : \A l \in OfServer(f) : (\E d \in Days : entry[d] = f) \/ Saved(l)

IInv == Types /\ Small /\ Rotates /\ Bounded /\ Kept
-----------------------------------------------------------------------------
(***************************************************************************)
(* What the pieces of the steps do.                                        *)
(***************************************************************************)
\* Process p has opened file f.
Opened(p, f) ==
    /\ f = entry[day] \/ (entry[day] = 0 /\ f = Len(files) + 1)
    /\ f \in 1..Len(files')
    /\ entry' = [entry EXCEPT ![day] = f]
    /\ proc' = [proc EXCEPT ![p] = [pc |-> "runs", file |-> f, date |-> day, size |-> 0]]
    /\ files' \in Seq(SUBSET Lines) /\ Len(files') \in Nat /\ Len(files) <= Len(files')
    /\ \A g \in 1..Len(files') :
          /\ g \in 1..Len(files) => files'[g] = files[g]
          /\ g \notin 1..Len(files) => files'[g] = {}
    /\ opens' \in [1..Len(files') -> Nat]
    /\ \A g \in 1..Len(files) :
          opens'[g] = opens[g] + (IF p = Server /\ g = f THEN 1 ELSE 0)
    /\ p = Server => opens'[f] > 0
    /\ bytes' \in [1..Len(files') -> Nat]
    /\ \A g \in 1..Len(files') : bytes'[g] = IF g \in 1..Len(files) THEN bytes[g] ELSE 0

LEMMA Products ==
    /\ \A m, a \in Nat : m * a \in Nat /\ m * (a + 1) = m * a + m
    /\ \A m, a, b \in Nat : a <= b => m * a <= m * b
  OBVIOUS

LEMMA Constants ==
    /\ MaxSize \in Nat \ {0} /\ MaxLine \in Nat \ {0} /\ PerOpening \in Nat
    /\ PerOpening = MaxSize - 1 + MaxLine
    /\ \A a \in Nat : a <= ToolLines => MaxLine * a \in Nat /\ MaxLine * a < MaxSize
  <1>1. /\ MaxSize \in Nat \ {0} /\ MaxLine \in Nat \ {0} /\ ToolLines \in Nat
        /\ ToolLines * MaxLine < MaxSize
    BY LoggerAssumption
  <1>2. MaxLine * ToolLines < MaxSize
    BY <1>1
  <1>3. ASSUME NEW a \in Nat, a <= ToolLines
        PROVE  MaxLine * a \in Nat /\ MaxLine * a <= MaxLine * ToolLines /\ MaxLine * ToolLines \in Nat
    BY <1>1, <1>3, Products
  <1> QED
    BY <1>1, <1>2, <1>3 DEF PerOpening

LEMMA CreateEffect ==
    ASSUME Types, NEW p \in Procs, CreateNewLogFile(p)
    PROVE  \E f \in Nat \ {0} : Opened(p, f)
  <1> DEFINE n == Len(files)
             one == IF p = Server THEN 1 ELSE 0
  <1>1. /\ files \in Seq(SUBSET Lines) /\ n \in Nat /\ entry[day] \in 0..n
        /\ opens \in [1..n -> Nat] /\ bytes \in [1..n -> Nat]
    BY LenProperties DEF Types
  <1>2. one \in Nat /\ (p = Server => one = 1) /\ (p # Server => one = 0)
    OBVIOUS
  <1>3. CASE entry[day] = 0
    <2>1. /\ files' = Append(files, {}) /\ opens' = Append(opens, one) /\ bytes' = Append(bytes, 0)
          /\ entry' = [entry EXCEPT ![day] = n + 1]
          /\ proc' = [proc EXCEPT ![p] = [pc |-> "runs", file |-> n + 1, date |-> day, size |-> 0]]
      BY <1>3 DEF CreateNewLogFile
    <2>2. /\ files' \in Seq(SUBSET Lines) /\ Len(files') = n + 1
          /\ \A g \in 1..n : files'[g] = files[g]
          /\ files'[n + 1] = {}
      BY <1>1, <2>1, AppendProperties
    <2>3. opens \in Seq(Nat) /\ Len(opens) = n
      BY <1>1
    <2>4. /\ opens' \in Seq(Nat) /\ Len(opens') = n + 1
          /\ \A g \in 1..n : opens'[g] = opens[g]
          /\ opens'[n + 1] = one
      BY <1>2, <2>1, <2>3, AppendProperties
    <2>5. opens' \in [1..(n + 1) -> Nat]
      BY <1>1, <2>4
    <2>13. bytes \in Seq(Nat) /\ Len(bytes) = n
      BY <1>1
    <2>14. /\ bytes' \in Seq(Nat) /\ Len(bytes') = n + 1
           /\ \A g \in 1..n : bytes'[g] = bytes[g]
           /\ bytes'[n + 1] = 0
      BY <2>1, <2>13, AppendProperties
    <2>15. bytes' \in [1..(n + 1) -> Nat]
      BY <1>1, <2>14
    <2>6. \A g \in 1..(n + 1) : g \in 1..n \/ g = n + 1
      BY <1>1
    <2>7. \A g \in 1..n : g # n + 1
      BY <1>1
    <2> HIDE DEF one
    <2>8. \A g \in 1..n : opens'[g] = opens[g] + (IF p = Server /\ g = n + 1 THEN 1 ELSE 0)
      BY <1>1, <2>4, <2>7
    <2>9. n + 1 \in Nat \ {0} /\ n + 1 \in 1..Len(files') /\ n <= Len(files')
      BY <1>1, <2>2
    <2>10. p = Server => opens'[n + 1] > 0
      BY <1>2, <2>4
    <2> HIDE DEF n
    <2>11. \A g \in 1..Len(files') : /\ g \in 1..n => files'[g] = files[g]
                                     /\ g \notin 1..n => files'[g] = {}
      BY <2>2, <2>6
    <2>16. \A g \in 1..Len(files') : bytes'[g] = IF g \in 1..n THEN bytes[g] ELSE 0
      BY <2>2, <2>6, <2>14
    <2>12. Opened(p, n + 1)
      BY <1>3, <2>1, <2>2, <2>5, <2>8, <2>9, <2>10, <2>11, <2>15, <2>16 DEF Opened, n
    <2> QED
      BY <2>9, <2>12
  <1>4. CASE entry[day] # 0
    <2> DEFINE f == entry[day]
    <2>1. /\ files' = files /\ opens' = [opens EXCEPT ![f] = @ + one] /\ bytes' = bytes
          /\ entry' = [entry EXCEPT ![day] = f]
          /\ proc' = [proc EXCEPT ![p] = [pc |-> "runs", file |-> f, date |-> day, size |-> 0]]
      BY <1>4 DEF CreateNewLogFile
    <2>2. f \in 1..n /\ f \in Nat \ {0}
      BY <1>1, <1>4
    <2> HIDE DEF one, f
    <2>3. opens' \in [1..n -> Nat] /\ opens'[f] = opens[f] + one
          /\ \A g \in 1..n : g # f => opens'[g] = opens[g]
      BY <1>1, <1>2, <2>1, <2>2
    <2>4. \A g \in 1..n : opens'[g] = opens[g] + (IF p = Server /\ g = f THEN 1 ELSE 0)
      BY <1>1, <1>2, <2>3
    <2>5. p = Server => opens'[f] > 0
      BY <1>1, <1>2, <2>2, <2>3
    <2>6. Opened(p, f)
      BY <1>1, <1>4, <2>1, <2>2, <2>3, <2>4, <2>5 DEF Opened, f
    <2> QED
      BY <2>2, <2>6
  <1> QED
    BY <1>3, <1>4

\* A line of n bytes has reached file f.
Logged(p, f, n) ==
    /\ f \in 1..Len(files)
    /\ files' \in Seq(SUBSET Lines) /\ Len(files') = Len(files)
    /\ files'[f] = files[f] \cup {<<p, lines[p] + 1>>}
    /\ \A g \in 1..Len(files) : g # f => files'[g] = files[g]
    /\ \E r \in Loggers :
          /\ proc' = [proc EXCEPT ![p] = r]
          /\ r.file = f /\ r.date = proc[p].date /\ r.size = proc[p].size + n
          /\ r.pc = IF r.size >= MaxSize THEN "full" ELSE "runs"
    /\ bytes' \in [1..Len(files) -> Nat]
    /\ \A g \in 1..Len(files) :
          bytes'[g] = IF p = Server /\ g = f THEN bytes[g] + n ELSE bytes[g]

LEMMA LogEffect ==
    ASSUME Types, Small, Rotates, NEW p \in Procs, NEW n \in 1..MaxLine, Log(p, n)
    PROVE  /\ lines' \in [Procs -> Nat] /\ lines'[p] = lines[p] + 1
           /\ \A q \in Procs : q # p => lines'[q] = lines[q]
           /\ proc[p].pc = "runs"
           /\ lines'[p] <= IF p = Server THEN MaxLines ELSE ToolLines
           /\ UNCHANGED <<day, entry, archives, opens, faults>>
           /\ \/ UNCHANGED <<files, bytes, proc>>
              \/ proc[p].file # 0 /\ Logged(p, proc[p].file, n)
  <1> DEFINE f == proc[p].file
             size == proc[p].size + n
             next == [proc[p] EXCEPT !.size = size, !.pc = IF Full(size) THEN "full" ELSE "runs"]
  <1>1. /\ lines \in [Procs -> Nat] /\ files \in Seq(SUBSET Lines) /\ Len(files) \in Nat
        /\ proc \in [Procs -> Loggers] /\ proc[p] \in Loggers
      BY LenProperties DEF Types
  <1>2. MaxLines \in Nat /\ ToolLines \in Nat /\ MaxSize \in Nat \ {0} /\ MaxLine \in Nat \ {0}
        /\ Server \in Procs /\ PerOpening = MaxSize - 1 + MaxLine
    BY LoggerAssumption DEF Procs, PerOpening
  <1>3. /\ proc[p].pc = "runs" /\ lines' = [lines EXCEPT ![p] = @ + 1]
        /\ lines[p] < IF p = Server THEN MaxLines ELSE ToolLines
        /\ UNCHANGED <<day, entry, archives, opens, faults>>
    BY DEF Log
  <1>4. lines' \in [Procs -> Nat] /\ lines'[p] = lines[p] + 1
        /\ \A q \in Procs : q # p => lines'[q] = lines[q]
    BY <1>1, <1>3
  <1>5. lines'[p] <= IF p = Server THEN MaxLines ELSE ToolLines
    BY <1>1, <1>2, <1>3, <1>4
  <1>6. CASE f = 0
    BY <1>3, <1>4, <1>5, <1>6 DEF Log
  <1>7. CASE f # 0
    <2>1. files' = [files EXCEPT ![f] = @ \cup {<<p, lines[p] + 1>>}]
      BY <1>7 DEF Log
    <2>2. proc' = [proc EXCEPT ![p] = next]
      BY <1>7 DEF Log
    <2>3. f \in 1..Len(files)
      BY <1>1, <1>7 DEF Types, Loggers
    <2>4. lines[p] + 1 \in 1..(MaxLines + ToolLines)
      BY <1>1, <1>2, <1>3
    <2>5. <<p, lines[p] + 1>> \in Lines
      BY <2>4 DEF Lines
    <2>6. files[f] \cup {<<p, lines[p] + 1>>} \in SUBSET Lines
      BY <1>1, <2>3, <2>5, ElementOfSeq
    <2>7. /\ files' \in Seq(SUBSET Lines) /\ Len(files') = Len(files)
          /\ files'[f] = files[f] \cup {<<p, lines[p] + 1>>}
          /\ \A g \in 1..Len(files) : g # f => files'[g] = files[g]
      BY <1>1, <2>1, <2>3, <2>6, ExceptSeq
    <2>8. size \in 0..PerOpening
      <3>1. p = Server => proc[p].size < MaxSize
        BY <1>3, <1>7 DEF Rotates
      <3>2. ASSUME p # Server
            PROVE  proc[p].size < MaxSize
        <4>1. proc[p].size \in Nat /\ proc[p].size <= MaxLine * lines[p] /\ lines[p] <= ToolLines
              /\ lines[p] \in Nat
          BY <1>1, <3>2 DEF Small, Procs, Loggers
        <4> QED
          BY <1>2, <4>1, Constants
      <3>3. proc[p].size < MaxSize /\ proc[p].size \in Nat
        BY <1>1, <3>1, <3>2 DEF Loggers
      <3> QED
        BY <1>2, <3>3
    <2>11. /\ bytes' \in [1..Len(files) -> Nat]
           /\ \A g \in 1..Len(files) :
                 bytes'[g] = IF p = Server /\ g = f THEN bytes[g] + n ELSE bytes[g]
      <3>1. bytes' = IF p = Server THEN [bytes EXCEPT ![f] = @ + n] ELSE bytes
        BY <1>7 DEF Log
      <3>2. bytes \in [1..Len(files) -> Nat] /\ n \in Nat
        BY <1>2 DEF Types
      <3> HIDE DEF f
      <3> QED
        BY <2>3, <3>1, <3>2
    <2>9. /\ next \in Loggers /\ next.file = f /\ next.date = proc[p].date /\ next.size = size
          /\ next.pc = IF size >= MaxSize THEN "full" ELSE "runs"
      <3> HIDE DEF size
      <3> QED
        BY <1>1, <2>8 DEF Loggers, Full
    <2>10. Logged(p, f, n)
      <3> HIDE DEF next
      <3> QED
        BY <2>2, <2>3, <2>7, <2>9, <2>11 DEF Logged
    <2> QED
      BY <1>3, <1>4, <1>5, <1>7, <2>10
  <1> QED
    BY <1>6, <1>7

\* The server is the only process that rotates.
LEMMA ServerRotates ==
    ASSUME IInv, NEW p \in Procs, proc[p].pc \in {"full", "archived", "closed"}
    PROVE  p = Server
  BY DEF IInv, Small, Procs

\* Archives are added and none changes.
Grown ==
    /\ archives' \in [Days -> Seq(Archives)]
    /\ \A d \in Days : /\ Len(archives[d]) \in Nat /\ Len(archives'[d]) \in Nat
                       /\ Len(archives[d]) <= Len(archives'[d])
                       /\ \A k \in 1..Len(archives[d]) : archives'[d][k] = archives[d][k]

LEMMA GrownSame ==
    ASSUME Types, UNCHANGED archives
    PROVE  Grown
  BY LenProperties DEF Types, Grown

LEMMA GrownByOne ==
    ASSUME Types, NEW d \in Days, NEW a \in Archives,
           archives' = [archives EXCEPT ![d] = Archived(d, a)]
    PROVE  /\ Grown
           /\ \E k \in 1..Len(archives'[d]) : archives'[d][k] = a
  <1>1. archives \in [Days -> Seq(Archives)]
    BY DEF Types
  <1>2. \A e \in Days : Len(archives[e]) \in Nat
    BY <1>1, LenProperties
  <1> DEFINE s == Append(archives[d], a)
  <1>3. /\ s \in Seq(Archives) /\ Len(s) = Len(archives[d]) + 1
        /\ \A k \in 1..Len(archives[d]) : s[k] = archives[d][k]
        /\ s[Len(archives[d]) + 1] = a
    BY <1>1, AppendProperties
  <1>4. archives' = [archives EXCEPT ![d] = s]
    BY DEF Archived
  <1> HIDE DEF s
  <1>5. /\ archives' \in [Days -> Seq(Archives)] /\ archives'[d] = s
        /\ \A e \in Days : e # d => archives'[e] = archives[e]
    BY <1>1, <1>3, <1>4
  <1>6. Len(archives[d]) + 1 \in 1..Len(s) /\ Len(archives[d]) <= Len(s) /\ Len(s) \in Nat
    BY <1>2, <1>3
  <1>7. Grown
    BY <1>2, <1>3, <1>5, <1>6 DEF Grown
  <1> QED
    BY <1>3, <1>5, <1>6, <1>7

\* What was saved stays so.
LEMMA SavedStays ==
    ASSUME Types, Grown, NEW l, Saved(l)
    PROVE  Saved(l)'
  <1>1. PICK d \in Days :
            \E k \in 1..Len(archives[d]) : archives[d][k].whole /\ l \in archives[d][k].lines
    BY DEF Saved
  <1>2. PICK k \in 1..Len(archives[d]) : archives[d][k].whole /\ l \in archives[d][k].lines
    BY <1>1
  <1>3. k \in 1..Len(archives'[d]) /\ archives'[d][k] = archives[d][k]
    BY DEF Grown
  <1> QED
    BY <1>2, <1>3 DEF Saved

LEMMA TornGrows ==
    ASSUME IInv, proc[Server].file # 0, Torn(Server)
    PROVE  Grown
  <1> DEFINE a == [lines |-> {}, whole |-> FALSE]
             d == proc[Server].date
  <1>1. Types /\ d \in Days /\ a \in Archives
    BY DEF IInv, Rotates, Archives
  <1>2. UNCHANGED archives \/ archives' = [archives EXCEPT ![d] = Archived(d, a)]
    BY DEF Torn
  <1> HIDE DEF a, d
  <1> QED
    BY <1>1, <1>2, GrownSame, GrownByOne

\* The server's Logger has become r.
Becomes(r) ==
    /\ proc' = [proc EXCEPT ![Server] = r] /\ r \in Loggers /\ r.file = 0

LEMMA TarEffect ==
    ASSUME IInv, Tar(Server)
    PROVE  /\ \E r \in Loggers : Becomes(r) /\ r.pc = "archived" /\ r.date = proc[Server].date
           /\ Grown /\ \A l \in files[entry[proc[Server].date]] : Saved(l)'
           /\ proc[Server].date \in Days /\ entry[proc[Server].date] # 0
           /\ UNCHANGED <<day, entry, files, lines, opens, bytes, faults>>
  <1> DEFINE d == proc[Server].date
             a == [lines |-> files[entry[d]], whole |-> TRUE]
             r == [proc[Server] EXCEPT !.pc = "archived", !.file = 0]
  <1>1. proc \in [Procs -> Loggers] /\ Server \in Procs /\ proc[Server] \in Loggers
    BY DEF IInv, Types, Procs
  <1>2. d \in Days /\ entry[d] # 0
    BY DEF IInv, Rotates, Tar
  <1>3. entry[d] \in 1..Len(files) /\ files \in Seq(SUBSET Lines)
    BY <1>2, LenProperties DEF IInv, Types
  <1>4. files[entry[d]] \in SUBSET Lines
    BY <1>3, ElementOfSeq
  <1>5. a \in Archives /\ a.whole = TRUE /\ a.lines = files[entry[d]]
    BY <1>4 DEF Archives
  <1>6. archives' = [archives EXCEPT ![d] = Archived(d, a)]
    BY DEF Tar
  <1>7. proc' = [proc EXCEPT ![Server] = r]
    BY <1>1 DEF Tar
  <1>8. r \in Loggers /\ r.file = 0 /\ r.pc = "archived" /\ r.date = d
    BY <1>1 DEF Loggers
  <1> HIDE DEF a, r
  <1>9. Grown /\ \E k \in 1..Len(archives'[d]) : archives'[d][k] = a
    BY <1>2, <1>5, <1>6, GrownByOne DEF IInv
  <1>10. \A l \in files[entry[d]] : Saved(l)'
    BY <1>2, <1>5, <1>9 DEF Saved
  <1> QED
    BY <1>2, <1>7, <1>8, <1>9, <1>10 DEF Becomes, Tar

LEMMA TarFailsEffect ==
    ASSUME IInv, TarFails(Server)
    PROVE  /\ \E r \in Loggers : Becomes(r) /\ r.pc = "closed"
           /\ Grown /\ faults' \in 0..MaxFaults
           /\ UNCHANGED <<day, entry, files, lines, opens, bytes>>
  <1> DEFINE r == [proc[Server] EXCEPT !.pc = "closed", !.file = 0]
  <1>1. proc \in [Procs -> Loggers] /\ Server \in Procs /\ proc[Server] \in Loggers
    BY DEF IInv, Types, Procs
  <1>2. Grown
    BY TornGrows DEF IInv, Rotates, TarFails
  <1>3. proc' = [proc EXCEPT ![Server] = r]
    BY <1>1 DEF TarFails
  <1>4. r \in Loggers /\ r.file = 0 /\ r.pc = "closed"
    BY <1>1 DEF Loggers
  <1>5. faults' \in 0..MaxFaults
    BY LoggerAssumption DEF IInv, Types, TarFails, Fault
  <1> HIDE DEF r
  <1> QED
    BY <1>2, <1>3, <1>4, <1>5 DEF Becomes, TarFails

LEMMA RemoveEffect ==
    ASSUME IInv, Remove(Server)
    PROVE  /\ \E r \in Loggers : Becomes(r) /\ r.pc = "closed"
           /\ entry' = [entry EXCEPT ![proc[Server].date] = 0] /\ proc[Server].pc = "archived"
           /\ proc[Server].date \in Days
           /\ UNCHANGED <<day, files, archives, lines, opens, bytes, faults>>
  <1> DEFINE r == [proc[Server] EXCEPT !.pc = "closed"]
  <1>1. proc \in [Procs -> Loggers] /\ Server \in Procs /\ proc[Server] \in Loggers
    BY DEF IInv, Types, Procs
  <1>2. proc' = [proc EXCEPT ![Server] = r] /\ proc[Server].pc = "archived"
    BY <1>1 DEF Remove
  <1>3. r \in Loggers /\ r.pc = "closed" /\ r.file = 0 /\ proc[Server].date \in Days
    BY <1>1, <1>2 DEF Loggers, IInv, Rotates
  <1> HIDE DEF r
  <1> QED
    BY <1>2, <1>3 DEF Becomes, Remove

LEMMA ReopenFailsEffect ==
    ASSUME IInv, ReopenFails(Server)
    PROVE  /\ \E r \in Loggers : Becomes(r) /\ r.pc = "runs"
           /\ faults' \in 0..MaxFaults
           /\ UNCHANGED <<day, entry, files, archives, lines, opens, bytes>>
  <1> DEFINE r == [proc[Server] EXCEPT !.pc = "runs", !.date = day]
  <1>1. proc \in [Procs -> Loggers] /\ Server \in Procs /\ proc[Server] \in Loggers
    BY DEF IInv, Types, Procs
  <1>2. proc' = [proc EXCEPT ![Server] = r] /\ proc[Server].pc = "closed"
    BY <1>1 DEF ReopenFails
  <1>3. day \in 0..MaxDay /\ proc[Server].file = 0
    BY <1>2, LoggerAssumption DEF IInv, Types, Days, Rotates
  <1>4. r \in Loggers /\ r.pc = "runs" /\ r.file = 0
    BY <1>1, <1>2, <1>3 DEF Loggers
  <1>5. faults' \in 0..MaxFaults
    BY LoggerAssumption DEF IInv, Types, ReopenFails, Fault
  <1> HIDE DEF r
  <1> QED
    BY <1>2, <1>4, <1>5 DEF Becomes, ReopenFails

LEMMA KillEffect ==
    ASSUME IInv, NEW p \in Procs, Kill(p)
    PROVE  /\ proc' = [proc EXCEPT ![p] = Down] /\ Down \in Loggers
           /\ Grown /\ faults' \in 0..MaxFaults
           /\ UNCHANGED <<day, entry, files, lines, opens, bytes>>
  <1>1. Down \in Loggers
    BY LoggerAssumption, Constants DEF Down, Loggers
  <1>2. Grown
    <2>1. CASE proc[p].pc = "full"
      <3>1. p = Server
        BY <2>1, ServerRotates
      <3>2. proc[Server].file # 0 /\ Torn(Server)
        BY <2>1, <3>1 DEF IInv, Rotates, Kill
      <3> QED
        BY <3>2, TornGrows
    <2>2. CASE proc[p].pc # "full"
      BY <2>2, GrownSame DEF Kill, IInv
    <2> QED
      BY <2>1, <2>2
  <1>3. faults' \in 0..MaxFaults
    BY LoggerAssumption DEF IInv, Types, Kill, Fault
  <1> QED
    BY <1>1, <1>2, <1>3 DEF Kill

\* LoggerInit and Reopen.
LEMMA OpenEffect ==
    ASSUME IInv, NEW p \in Procs, LoggerInit(p) \/ Reopen(p)
    PROVE  /\ \E f \in Nat \ {0} : Opened(p, f)
           /\ UNCHANGED <<day, archives, lines, faults>>
           /\ p # Server => lines[p] = 0
  BY CreateEffect, ServerRotates DEF LoggerInit, Reopen, IInv

\* The kinds of steps.
LEMMA Steps ==
    ASSUME IInv, [Next]_vars
    PROVE  \/ Midnight \/ UNCHANGED vars
           \/ \E p \in Procs : \/ LoggerInit(p) \/ Reopen(p) \/ Kill(p)
                               \/ \E n \in 1..MaxLine : Log(p, n)
           \/ Tar(Server) \/ TarFails(Server) \/ Remove(Server) \/ ReopenFails(Server)
  <1>1. ASSUME NEW p \in Procs, Tar(p) \/ TarFails(p) \/ Remove(p) \/ ReopenFails(p)
        PROVE  p = Server
    BY <1>1, ServerRotates DEF Tar, TarFails, Remove, ReopenFails
  <1> QED
    BY <1>1 DEF Next
-----------------------------------------------------------------------------
(***************************************************************************)
(* The invariant is inductive.                                             *)
(***************************************************************************)
LEMMA IInvInit ==
    ASSUME Init
    PROVE  IInv
  <1>1. 1 \in Days /\ MaxDay \in Nat /\ MaxSize \in Nat /\ MaxLines \in Nat /\ ToolLines \in Nat
        /\ MaxFaults \in Nat /\ Server \in Procs /\ Tools \subseteq Procs
    BY LoggerAssumption DEF Days, Procs
  <1>2. files = <<>> /\ files \in Seq(SUBSET Lines) /\ Len(files) = 0
    BY EmptySeq DEF Init
  <1>3. opens \in [1..0 -> Nat] /\ bytes \in [1..0 -> Nat]
    BY DEF Init
  <1>4. archives \in [Days -> Seq(Archives)]
    BY EmptySeq DEF Init
  <1>5. Down \in Loggers /\ Down.pc = "down" /\ Down.file = 0 /\ Down.size = 0
    BY <1>1, Constants DEF Down, Loggers
  <1>6. \A p \in Procs : proc[p] = Down /\ lines[p] = 0
    BY DEF Init
  <1>7. Types
    BY <1>1, <1>2, <1>3, <1>4, <1>5, <1>6 DEF Types, Init
  <1>8. Small /\ Rotates
    <2>1. MaxLine * 0 = 0
      BY Constants
    <2> QED
      BY <1>1, <1>5, <1>6, <2>1 DEF Small, Rotates
  <1>9. Bounded /\ Kept
    BY <1>1, <1>2, <1>5, <1>6 DEF Bounded, Kept
  <1> QED
    BY <1>7, <1>8, <1>9 DEF IInv

\* Midnight, or nothing.
Quiet ==
    /\ day' \in Days
    /\ UNCHANGED <<entry, files, archives, proc, lines, opens, bytes, faults>>

LEMMA QuietEffect ==
    ASSUME IInv, Midnight \/ UNCHANGED vars
    PROVE  Quiet
  BY DEF IInv, Types, Midnight, Quiet, vars

\* The server's steps in which it has no file open afterwards.
Closing(r) ==
    /\ Becomes(r) /\ Grown /\ faults' \in 0..MaxFaults
    /\ UNCHANGED <<day, files, lines, opens, bytes>>
    /\ \/ UNCHANGED entry
       \/ /\ proc[Server].pc = "archived" /\ proc[Server].date \in Days
          /\ entry' = [entry EXCEPT ![proc[Server].date] = 0]
    /\ \/ r.pc \in {"closed", "runs"}
       \/ /\ r.pc = "archived" /\ r.date = proc[Server].date
          /\ r.date \in Days /\ entry[r.date] # 0 /\ UNCHANGED entry
          /\ \A l \in files[entry[r.date]] : Saved(l)'

LEMMA ClosingEffect ==
    ASSUME IInv, Tar(Server) \/ TarFails(Server) \/ Remove(Server) \/ ReopenFails(Server)
    PROVE  \E r \in Loggers : Closing(r)
  <1>1. faults \in 0..MaxFaults /\ Types
    BY DEF IInv, Types
  <1>2. CASE Tar(Server)
    BY <1>1, <1>2, TarEffect DEF Closing
  <1>3. CASE TarFails(Server)
    BY <1>3, TarFailsEffect DEF Closing
  <1>4. CASE Remove(Server)
    <2>1. Grown
      BY <1>1, <1>4, RemoveEffect, GrownSame
    <2> QED
      BY <1>1, <1>4, <2>1, RemoveEffect DEF Closing
  <1>5. CASE ReopenFails(Server)
    <2>1. Grown
      BY <1>1, <1>5, ReopenFailsEffect, GrownSame
    <2> QED
      BY <1>5, <2>1, ReopenFailsEffect DEF Closing
  <1> QED
    BY <1>2, <1>3, <1>4, <1>5

\* The opening of a file.
Opening(p, f) ==
    /\ Opened(p, f)
    /\ p # Server => lines[p] = 0
    /\ UNCHANGED <<day, archives, lines, faults>>

\* Every step is of one of these forms.
LEMMA Forms ==
    ASSUME IInv, [Next]_vars
    PROVE  \/ Quiet
           \/ \E p \in Procs : \/ \E f \in Nat \ {0} : Opening(p, f)
                               \/ \E n \in 1..MaxLine : Log(p, n)
                               \/ Kill(p)
           \/ \E r \in Loggers : Closing(r)
  <1>1. ASSUME NEW p \in Procs, LoggerInit(p) \/ Reopen(p)
        PROVE  \E f \in Nat \ {0} : Opening(p, f)
    BY <1>1, OpenEffect DEF Opening
  <1> QED
    BY <1>1, Steps, QuietEffect, ClosingEffect

LEMMA OpenedKeepsEntries ==
    ASSUME Types, NEW p, NEW f, Opened(p, f), NEW d \in Days, entry[d] # 0
    PROVE  entry'[d] = entry[d]
  BY DEF Types, Opened

LEMMA ToolsLineIsNotOfServer ==
    ASSUME NEW p \in Tools, NEW f, NEW n, Logged(p, f, n), NEW g \in 1..Len(files)
    PROVE  OfServer(g)' = OfServer(g) /\ bytes'[g] = bytes[g]
  <1>1. p # Server
    BY LoggerAssumption
  <1>2. g # f => files'[g] = files[g]
    BY DEF Logged
  <1>3. g = f => files'[g] = files[g] \cup {<<p, lines[p] + 1>>}
    BY DEF Logged
  <1>4. bytes'[g] = bytes[g]
    BY <1>1 DEF Logged
  <1> QED
    BY <1>1, <1>2, <1>3, <1>4 DEF OfServer

LEMMA TypesNext ==
    ASSUME IInv, [Next]_vars
    PROVE  Types'
  <1>1. /\ entry \in [Days -> Nat] /\ \A d \in Days : entry[d] <= Len(files)
        /\ files \in Seq(SUBSET Lines) /\ Len(files) \in Nat
        /\ opens \in [1..Len(files) -> Nat] /\ bytes \in [1..Len(files) -> Nat]
        /\ proc \in [Procs -> Loggers] /\ \A p \in Procs : proc[p].file <= Len(files)
        /\ lines \in [Procs -> Nat] /\ lines[Server] <= MaxLines /\ day \in Days
        /\ archives \in [Days -> Seq(Archives)] /\ faults \in 0..MaxFaults
        /\ Types /\ Small /\ Rotates
    BY LenProperties DEF IInv, Types
  <1>2. Server \in Procs
    BY DEF Procs
  <1>3. CASE Quiet
    BY <1>1, <1>3 DEF Quiet, Types
  <1>4. ASSUME NEW p \in Procs, NEW f \in Nat \ {0}, Opening(p, f)
        PROVE  Types'
    <2> DEFINE r == [pc |-> "runs", file |-> f, date |-> day, size |-> 0]
    <2>1. /\ f \in 1..Len(files') /\ entry' = [entry EXCEPT ![day] = f]
          /\ proc' = [proc EXCEPT ![p] = r]
          /\ files' \in Seq(SUBSET Lines) /\ Len(files') \in Nat /\ Len(files) <= Len(files')
          /\ opens' \in [1..Len(files') -> Nat] /\ bytes' \in [1..Len(files') -> Nat]
          /\ UNCHANGED <<day, archives, lines, faults>>
      BY <1>4 DEF Opening, Opened
    <2>2. r \in Loggers /\ r.file <= Len(files')
      BY <1>1, <2>1, LoggerAssumption, Constants DEF Loggers, Days
    <2> HIDE DEF r
    <2>3. entry' \in [Days -> Nat] /\ \A d \in Days : entry'[d] <= Len(files')
      BY <1>1, <2>1
    <2>4. proc' \in [Procs -> Loggers] /\ \A q \in Procs : q # p => proc'[q] = proc[q]
      BY <1>1, <2>1, <2>2
    <2>5. \A q \in Procs : proc'[q].file \in Nat /\ proc[q].file \in Nat
      BY <1>1, <2>4 DEF Loggers
    <2>6. \A q \in Procs : proc'[q].file <= Len(files')
      BY <1>1, <2>1, <2>2, <2>4, <2>5
    <2> QED
      BY <1>1, <2>1, <2>3, <2>4, <2>6 DEF Types
  <1>5. ASSUME NEW p \in Procs, NEW n \in 1..MaxLine, Log(p, n)
        PROVE  Types'
    <2>1. /\ lines' \in [Procs -> Nat] /\ lines'[p] = lines[p] + 1
          /\ \A q \in Procs : q # p => lines'[q] = lines[q]
          /\ lines'[p] <= IF p = Server THEN MaxLines ELSE ToolLines
          /\ UNCHANGED <<day, entry, archives, opens, faults>>
          /\ \/ UNCHANGED <<files, bytes, proc>>
             \/ proc[p].file # 0 /\ Logged(p, proc[p].file, n)
      BY <1>1, <1>5, LogEffect
    <2>2. lines'[Server] <= MaxLines
      BY <1>1, <1>2, <2>1
    <2>3. CASE UNCHANGED <<files, bytes, proc>>
      BY <1>1, <2>1, <2>2, <2>3 DEF Types
    <2>4. CASE Logged(p, proc[p].file, n)
      <3>1. files' \in Seq(SUBSET Lines) /\ Len(files') = Len(files)
            /\ bytes' \in [1..Len(files) -> Nat]
        BY <2>4 DEF Logged
      <3>2. PICK r \in Loggers : proc' = [proc EXCEPT ![p] = r] /\ r.file = proc[p].file
        BY <2>4 DEF Logged
      <3>3. proc' \in [Procs -> Loggers] /\ \A q \in Procs : proc'[q].file <= Len(files')
        BY <1>1, <3>1, <3>2
      <3> QED
        BY <1>1, <2>1, <2>2, <3>1, <3>3 DEF Types
    <2> QED
      BY <2>1, <2>3, <2>4
  <1>6. ASSUME NEW p \in Procs, NEW r \in Loggers, proc' = [proc EXCEPT ![p] = r], r.file = 0,
               Grown, faults' \in 0..MaxFaults, UNCHANGED <<day, files, lines, opens, bytes>>,
               entry' \in [Days -> Nat], \A d \in Days : entry'[d] <= Len(files)
        PROVE  Types'
    <2>1. proc' \in [Procs -> Loggers] /\ \A q \in Procs : proc'[q].file <= Len(files)
      BY <1>1, <1>6
    <2> QED
      BY <1>1, <1>6, <2>1 DEF Types, Grown
  <1>7. ASSUME NEW p \in Procs, Kill(p)
        PROVE  Types'
    <2>1. Down.file = 0
      BY DEF Down
    <2> QED
      BY <1>1, <1>6, <1>7, <2>1, KillEffect
  <1>8. ASSUME NEW r \in Loggers, Closing(r)
        PROVE  Types'
    <2>1. entry' \in [Days -> Nat] /\ \A d \in Days : entry'[d] <= Len(files)
      <3>1. \/ entry' = entry
            \/ /\ proc[Server].date \in Days
               /\ entry' = [entry EXCEPT ![proc[Server].date] = 0]
        BY <1>8 DEF Closing
      <3>2. CASE entry' = entry
        BY <1>1, <3>2
      <3>3. ASSUME NEW d \in Days, entry' = [entry EXCEPT ![d] = 0]
            PROVE  entry' \in [Days -> Nat] /\ \A e \in Days : entry'[e] <= Len(files)
        BY <1>1, <3>3
      <3> QED
        BY <3>1, <3>2, <3>3
    <2> QED
      BY <1>2, <1>6, <1>8, <2>1 DEF Closing, Becomes
  <1> QED
    BY <1>3, <1>4, <1>5, <1>7, <1>8, Forms

LEMMA SmallNext ==
    ASSUME IInv, [Next]_vars
    PROVE  Small'
  <1>1. /\ lines \in [Procs -> Nat] /\ proc \in [Procs -> Loggers] /\ Types /\ Small /\ Rotates
    BY DEF IInv, Types
  <1>2. /\ Tools \subseteq Procs /\ Server \notin Tools /\ Server \in Procs
        /\ ToolLines \in Nat /\ MaxSize \in Nat /\ MaxLine \in Nat \ {0}
    BY LoggerAssumption DEF Procs
  <1>3. \A p \in Tools : /\ proc[p].pc \in {"down", "runs"}
                         /\ proc[p].size <= MaxLine * lines[p] /\ lines[p] <= ToolLines
    BY <1>1 DEF Small
  <1>4. CASE Quiet
    BY <1>3, <1>4 DEF Quiet, Small
  <1>5. ASSUME NEW p \in Procs, NEW f \in Nat \ {0}, Opening(p, f)
        PROVE  Small'
    <2>1. \A q \in Tools : MaxLine * lines[q] \in Nat
      BY <1>1, <1>2, Products
    <2> QED
      BY <1>1, <1>2, <1>3, <1>5, <2>1 DEF Opening, Opened, Small
  <1>6. ASSUME NEW p \in Procs, NEW n \in 1..MaxLine, Log(p, n)
        PROVE  Small'
    <2>1. /\ lines' \in [Procs -> Nat] /\ lines'[p] = lines[p] + 1
          /\ \A q \in Procs : q # p => lines'[q] = lines[q]
          /\ proc[p].pc = "runs"
          /\ lines'[p] <= IF p = Server THEN MaxLines ELSE ToolLines
          /\ \/ UNCHANGED <<files, bytes, proc>>
             \/ proc[p].file # 0 /\ Logged(p, proc[p].file, n)
      BY <1>1, <1>6, LogEffect
    <2>2. \A q \in Procs : q # p => proc'[q] = proc[q]
      BY <1>1, <2>1 DEF Logged
    <2>3. ASSUME p \in Tools
          PROVE  /\ proc'[p].pc \in {"down", "runs"} /\ proc'[p].size <= MaxLine * lines'[p]
                 /\ lines'[p] <= ToolLines
      <3>1. lines'[p] <= ToolLines /\ lines'[p] \in Nat
        BY <1>2, <2>1, <2>3
      <3>2. proc[p].size \in Nat /\ lines[p] \in Nat /\ proc[p].size <= MaxLine * lines[p]
        BY <1>1, <1>2, <1>3, <2>3 DEF Loggers
      <3>3. /\ MaxLine * lines[p] \in Nat /\ MaxLine * lines'[p] \in Nat
            /\ MaxLine * lines'[p] = MaxLine * lines[p] + MaxLine /\ MaxLine * lines'[p] < MaxSize
        BY <1>2, <2>1, <3>1, <3>2, Products, Constants
      <3>4. CASE UNCHANGED proc
        BY <1>2, <1>3, <2>3, <3>1, <3>2, <3>3, <3>4
      <3>5. CASE Logged(p, proc[p].file, n)
        <4>1. PICK r \in Loggers : /\ proc' = [proc EXCEPT ![p] = r] /\ r.size = proc[p].size + n
                                   /\ r.pc = IF r.size >= MaxSize THEN "full" ELSE "runs"
          BY <3>5 DEF Logged
        <4>2. proc'[p] = r
          BY <1>1, <4>1
        <4>3. r.size <= MaxLine * lines'[p] /\ ~(r.size >= MaxSize)
          BY <1>2, <3>2, <3>3, <4>1
        <4> QED
          BY <3>1, <4>1, <4>2, <4>3
      <3> QED
        BY <2>1, <3>4, <3>5
    <2> QED
      BY <1>2, <1>3, <2>1, <2>2, <2>3 DEF Small
  <1>7. ASSUME NEW p \in Procs, Kill(p)
        PROVE  Small'
    <2>1. proc' = [proc EXCEPT ![p] = Down] /\ lines' = lines
      BY <1>7, KillEffect
    <2>2. \A q \in Tools : MaxLine * lines[q] \in Nat
      BY <1>1, <1>2, Products
    <2> QED
      BY <1>1, <1>2, <1>3, <2>1, <2>2 DEF Small, Down
  <1>8. ASSUME NEW r \in Loggers, Closing(r)
        PROVE  Small'
    BY <1>1, <1>2, <1>3, <1>8 DEF Closing, Becomes, Small
  <1> QED
    BY <1>4, <1>5, <1>6, <1>7, <1>8, Forms

\* The server's rotation is not disturbed by a step that leaves its Logger,
\* the entries there are, the lines of the server and the archives.
LEMMA RotatesFrame ==
    ASSUME IInv, proc'[Server] = proc[Server], Grown,
           \A d \in Days : entry[d] # 0 => entry'[d] = entry[d],
           \A g \in 1..Len(files) : \A l \in files'[g] : l[1] = Server => l \in files[g]
    PROVE  Rotates'
  <1> DEFINE s == proc[Server]
  <1>1. /\ s.pc = "full" => s.file # 0
        /\ s.pc \in {"down", "archived", "closed"} => s.file = 0
        /\ s.file # 0 \/ s.pc = "archived" => s.date \in Days /\ entry[s.date] # 0
        /\ s.file # 0 => entry[s.date] = s.file
        /\ s.pc = "archived" => \A l \in OfServer(entry[s.date]) : Saved(l)
        /\ s.pc = "runs" /\ s.file # 0 => s.size < MaxSize
    BY DEF IInv, Rotates
  <1>2. s.date \in Days /\ entry[s.date] # 0 => entry'[s.date] = entry[s.date]
    OBVIOUS
  <1>3. ASSUME s.pc = "archived", NEW l \in files'[entry'[s.date]], l[1] = Server
        PROVE  Saved(l)'
    <2>1. s.date \in Days /\ entry[s.date] # 0 /\ entry'[s.date] = entry[s.date]
      BY <1>1, <1>2, <1>3
    <2>2. entry[s.date] \in 1..Len(files)
      BY <2>1, LenProperties DEF IInv, Types
    <2>3. l \in OfServer(entry[s.date])
      BY <1>3, <2>1, <2>2 DEF OfServer
    <2> QED
      BY <1>1, <1>3, <2>3, SavedStays DEF IInv
  <1>4. \A l \in {k \in files'[entry'[s.date]] : k[1] = Server} :
            s.pc = "archived" => Saved(l)'
    BY <1>3
  <1>5. /\ s.file # 0 \/ s.pc = "archived" => s.date \in Days /\ entry'[s.date] # 0
        /\ s.file # 0 => entry'[s.date] = s.file
    BY <1>1, <1>2
  <1> QED
    BY <1>1, <1>4, <1>5 DEF Rotates, OfServer

\* A server without a file that has nothing to remove.
LEMMA RotatesIdle ==
    ASSUME proc'[Server].file = 0, proc'[Server].pc \in {"down", "closed", "runs"}
    PROVE  Rotates'
  BY DEF Rotates

LEMMA RotatesNext ==
    ASSUME IInv, [Next]_vars
    PROVE  Rotates'
  <1>1. /\ entry \in [Days -> Nat] /\ proc \in [Procs -> Loggers] /\ Types /\ Small /\ Rotates
        /\ day \in Days /\ MaxSize \in Nat \ {0} /\ Server \in Procs
    BY LoggerAssumption DEF IInv, Types, Procs
  <1>2. CASE Quiet
    <2>1. Grown
      BY <1>1, <1>2, GrownSame DEF Quiet
    <2> QED
      BY <1>2, <2>1, RotatesFrame DEF Quiet
  <1>3. ASSUME NEW p \in Procs, NEW f \in Nat \ {0}, Opening(p, f)
        PROVE  Rotates'
    <2>1. Opened(p, f) /\ UNCHANGED <<day, archives>>
      BY <1>3 DEF Opening
    <2>2. /\ entry' = [entry EXCEPT ![day] = f]
          /\ proc' = [proc EXCEPT ![p] = [pc |-> "runs", file |-> f, date |-> day, size |-> 0]]
          /\ \A g \in 1..Len(files) : g \in 1..Len(files') /\ files'[g] = files[g]
      BY <2>1, <1>1, LenProperties DEF Opened, Types
    <2>3. CASE p = Server
      <3>1. proc'[Server] = [pc |-> "runs", file |-> f, date |-> day, size |-> 0]
        BY <1>1, <2>2, <2>3
      <3>2. entry'[day] = f
        BY <1>1, <2>2
      <3> QED
        BY <1>1, <3>1, <3>2 DEF Rotates
    <2>4. CASE p # Server
      <3>1. proc'[Server] = proc[Server] /\ Grown
        BY <1>1, <2>1, <2>2, <2>4, GrownSame
      <3>2. \A d \in Days : entry[d] # 0 => entry'[d] = entry[d]
        BY <1>1, <2>1, OpenedKeepsEntries
      <3> QED
        BY <2>2, <3>1, <3>2, RotatesFrame
    <2> QED
      BY <2>3, <2>4
  <1>4. ASSUME NEW p \in Procs, NEW n \in 1..MaxLine, Log(p, n)
        PROVE  Rotates'
    <2>1. /\ proc[p].pc = "runs"
          /\ UNCHANGED <<day, entry, archives, opens, faults>>
          /\ \/ UNCHANGED <<files, bytes, proc>>
             \/ proc[p].file # 0 /\ Logged(p, proc[p].file, n)
      BY <1>1, <1>4, LogEffect
    <2>2. Grown
      BY <1>1, <2>1, GrownSame
    <2>3. CASE UNCHANGED <<files, bytes, proc>>
      BY <2>1, <2>2, <2>3, RotatesFrame
    <2>4. CASE proc[p].file # 0 /\ Logged(p, proc[p].file, n)
      <3>1. PICK r \in Loggers : /\ proc' = [proc EXCEPT ![p] = r] /\ r.file = proc[p].file
                                 /\ r.date = proc[p].date
                                 /\ r.pc = IF r.size >= MaxSize THEN "full" ELSE "runs"
        BY <2>4 DEF Logged
      <3>2. CASE p = Server
        <4>1. proc'[Server] = r /\ r.size \in Nat
          BY <1>1, <3>1, <3>2 DEF Loggers
        <4>2. r.file # 0 /\ r.date \in Days /\ entry[r.date] = r.file
          BY <1>1, <2>4, <3>1, <3>2 DEF Rotates
        <4>3. r.pc \in {"full", "runs"} /\ (r.pc = "runs" => r.size < MaxSize)
          BY <1>1, <3>1, <4>1
        <4> QED
          BY <2>1, <4>1, <4>2, <4>3 DEF Rotates
      <3>3. CASE p # Server
        <4>1. p \in Tools /\ proc'[Server] = proc[Server]
          BY <1>1, <3>1, <3>3 DEF Procs
        <4>2. \A g \in 1..Len(files) : \A l \in files'[g] : l[1] = Server => l \in files[g]
          BY <2>4, <4>1, ToolsLineIsNotOfServer DEF OfServer
        <4> QED
          BY <2>1, <2>2, <4>1, <4>2, RotatesFrame
      <3> QED
        BY <3>2, <3>3
    <2> QED
      BY <2>1, <2>3, <2>4
  <1>5. ASSUME NEW p \in Procs, Kill(p)
        PROVE  Rotates'
    <2>1. proc' = [proc EXCEPT ![p] = Down] /\ Grown /\ UNCHANGED <<entry, files>>
      BY <1>5, KillEffect
    <2>2. p = Server => proc'[Server] = Down
      BY <1>1, <2>1
    <2>3. p # Server => proc'[Server] = proc[Server]
      BY <1>1, <2>1
    <2>4. Down.pc = "down" /\ Down.file = 0
      BY DEF Down
    <2> QED
      BY <2>1, <2>2, <2>3, <2>4, RotatesFrame, RotatesIdle
  <1>6. ASSUME NEW r \in Loggers, Closing(r)
        PROVE  Rotates'
    <2>1. proc'[Server] = r /\ r.file = 0 /\ files' = files
      BY <1>1, <1>6 DEF Closing, Becomes
    <2>2. CASE r.pc \in {"closed", "runs"}
      BY <2>1, <2>2, RotatesIdle
    <2>3. CASE r.pc = "archived"
      <3>1. /\ r.date \in Days /\ entry[r.date] # 0 /\ entry' = entry
            /\ \A l \in files[entry[r.date]] : Saved(l)'
        BY <1>6, <2>3 DEF Closing
      <3>2. \A l \in {k \in files'[entry'[r.date]] : k[1] = Server} : Saved(l)'
        BY <2>1, <3>1
      <3> QED
        BY <2>1, <2>3, <3>1, <3>2 DEF Rotates, OfServer
    <2> QED
      BY <1>6, <2>2, <2>3 DEF Closing
  <1> QED
    BY <1>2, <1>3, <1>4, <1>5, <1>6, Forms

\* What Bounded says of a file, and of the file the server has open.
Fits(f) == bytes[f] <= PerOpening * opens[f]

Counted(s) ==
    s.file # 0 => /\ opens[s.file] > 0
                  /\ bytes[s.file] <= PerOpening * (opens[s.file] - 1) + s.size

LEMMA BoundedIs ==
    Bounded <=> (\A f \in 1..Len(files) : Fits(f)) /\ Counted(proc[Server])
  BY DEF Bounded, Fits, Counted

\* A file to which nothing is added and that is opened no less often fits.
LEMMA FitsFrame ==
    ASSUME Types, Bounded, NEW f \in 1..Len(files), bytes'[f] = bytes[f],
           opens'[f] \in Nat, opens'[f] >= opens[f]
    PROVE  Fits(f)'
  <1>1. bytes[f] <= PerOpening * opens[f] /\ opens[f] \in Nat /\ bytes[f] \in Nat
    BY DEF Types, Bounded
  <1>2. /\ PerOpening * opens[f] <= PerOpening * opens'[f]
        /\ PerOpening * opens[f] \in Nat /\ PerOpening * opens'[f] \in Nat
    BY <1>1, Constants, Products
  <1> QED
    BY <1>1, <1>2 DEF Fits

\* Steps of others leave the server's count.
LEMMA CountedFrame ==
    ASSUME IInv, proc'[Server] = proc[Server],
           \A g \in 1..Len(files) : opens'[g] = opens[g] /\ bytes'[g] = bytes[g]
    PROVE  Counted(proc[Server])'
  <1>1. Counted(proc[Server])
    BY BoundedIs DEF IInv
  <1>2. proc[Server].file \in 0..Len(files)
    BY LenProperties DEF IInv, Types, Procs, Loggers
  <1> QED
    BY <1>1, <1>2 DEF Counted

LEMMA BoundedNext ==
    ASSUME IInv, [Next]_vars
    PROVE  Bounded'
  <1>1. /\ Len(files) \in Nat /\ opens \in [1..Len(files) -> Nat] /\ bytes \in [1..Len(files) -> Nat]
        /\ proc \in [Procs -> Loggers] /\ Types /\ Small /\ Rotates /\ Bounded
        /\ Server \in Procs
    BY LenProperties DEF IInv, Types, Procs
  <1>2. proc[Server].file \in 0..Len(files) /\ proc[Server].size \in Nat
    BY <1>1 DEF Types, Loggers
  <1>3. ASSUME files' = files, opens' = opens, bytes' = bytes,
               proc'[Server].file = 0 \/ proc'[Server] = proc[Server]
        PROVE  Bounded'
    BY <1>1, <1>3 DEF Bounded
  <1>4. CASE Quiet
    BY <1>3, <1>4 DEF Quiet
  <1>5. ASSUME NEW p \in Procs, Kill(p)
        PROVE  Bounded'
    <2>1. /\ proc' = [proc EXCEPT ![p] = Down]
          /\ files' = files /\ opens' = opens /\ bytes' = bytes
      BY <1>5, KillEffect
    <2> QED
      BY <1>1, <1>3, <2>1 DEF Down
  <1>6. ASSUME NEW r \in Loggers, Closing(r)
        PROVE  Bounded'
    BY <1>1, <1>3, <1>6 DEF Closing, Becomes
  <1>7. ASSUME NEW p \in Procs, NEW f \in Nat \ {0}, Opening(p, f)
        PROVE  Bounded'
    <2> DEFINE old == 1..Len(files)
    <2>1. /\ f \in 1..Len(files') /\ Len(files') \in Nat /\ old \subseteq 1..Len(files')
          /\ proc' = [proc EXCEPT ![p] = [pc |-> "runs", file |-> f, date |-> day, size |-> 0]]
          /\ opens' \in [1..Len(files') -> Nat]
          /\ \A g \in old : opens'[g] = opens[g] + (IF p = Server /\ g = f THEN 1 ELSE 0)
          /\ \A g \in 1..Len(files') : bytes'[g] = IF g \in old THEN bytes[g] ELSE 0
          /\ p = Server => opens'[f] > 0
      BY <1>1, <1>7 DEF Opening, Opened
    <2>2. ASSUME NEW g \in 1..Len(files')
          PROVE  Fits(g)'
      <3>1. CASE g \in old
        <4>1. opens'[g] \in Nat /\ opens'[g] >= opens[g] /\ bytes'[g] = bytes[g]
          BY <1>1, <2>1, <3>1
        <4> QED
          BY <1>1, <3>1, <4>1, FitsFrame
      <3>2. CASE g \notin old
        <4>1. bytes'[g] = 0 /\ PerOpening * opens'[g] \in Nat
          BY <2>1, <3>2, Constants, Products
        <4> QED
          BY <4>1 DEF Fits
      <3> QED
        BY <3>1, <3>2
    <2>3. Counted(proc[Server])'
      <3>1. CASE p # Server
        <4>1. proc'[Server] = proc[Server]
          BY <1>1, <2>1, <3>1
        <4>2. ASSUME NEW g \in old
              PROVE  opens'[g] = opens[g] /\ bytes'[g] = bytes[g]
          <5>1. opens'[g] = opens[g] + 0 /\ opens[g] \in Nat /\ g \in 1..Len(files')
            BY <1>1, <2>1, <3>1
          <5> QED
            BY <2>1, <5>1
        <4> QED
          BY <4>1, <4>2, CountedFrame
      <3>2. CASE p = Server
        <4>1. proc'[Server] = [pc |-> "runs", file |-> f, date |-> day, size |-> 0]
          BY <1>1, <2>1, <3>2
        <4>2. opens'[f] \in Nat /\ opens'[f] > 0 /\ opens'[f] - 1 \in Nat
          BY <2>1, <3>2
        <4>3. bytes'[f] <= PerOpening * (opens'[f] - 1) /\ bytes'[f] \in Nat
          <5>1. CASE f \in old
            <6>1. opens'[f] - 1 = opens[f] /\ bytes'[f] = bytes[f]
              BY <1>1, <2>1, <3>2, <5>1
            <6> QED
              BY <1>1, <5>1, <6>1 DEF Bounded
          <5>2. CASE f \notin old
            <6>1. bytes'[f] = 0 /\ PerOpening * (opens'[f] - 1) \in Nat
              BY <2>1, <4>2, <5>2, Constants, Products
            <6> QED
              BY <6>1
          <5> QED
            BY <5>1, <5>2
        <4>4. PerOpening * (opens'[f] - 1) \in Nat
          BY <4>2, Constants, Products
        <4> DEFINE b == PerOpening * (opens'[f] - 1)
        <4> HIDE DEF b
        <4>5. bytes'[f] <= b + 0
          BY <4>3, <4>4 DEF b
        <4> QED
          BY <4>1, <4>2, <4>5 DEF Counted, b
      <3> QED
        BY <3>1, <3>2
    <2> QED
      BY <2>2, <2>3 DEF Bounded, Fits, Counted
  <1>8. ASSUME NEW p \in Procs, NEW n \in 1..MaxLine, Log(p, n)
        PROVE  Bounded'
    <2>1. /\ proc[p].pc = "runs" /\ opens' = opens
          /\ \/ UNCHANGED <<files, bytes, proc>>
             \/ proc[p].file # 0 /\ Logged(p, proc[p].file, n)
      BY <1>1, <1>8, LogEffect
    <2>2. CASE UNCHANGED <<files, bytes, proc>>
      BY <1>3, <2>1, <2>2
    <2>3. ASSUME NEW f \in 1..Len(files), f = proc[p].file, Logged(p, f, n)
          PROVE  Bounded'
      <3>1. /\ Len(files') = Len(files)
            /\ \A g \in 1..Len(files) :
                  bytes'[g] = IF p = Server /\ g = f THEN bytes[g] + n ELSE bytes[g]
        BY <2>3 DEF Logged
      <3>2. PICK r \in Loggers : /\ proc' = [proc EXCEPT ![p] = r] /\ r.file = f
                                 /\ r.size = proc[p].size + n
        BY <2>3 DEF Logged
      <3>3. ASSUME NEW g \in 1..Len(files), p # Server \/ g # f
            PROVE  Fits(g)'
        <4>1. opens'[g] \in Nat /\ opens'[g] >= opens[g] /\ bytes'[g] = bytes[g]
          BY <1>1, <2>1, <3>1, <3>3
        <4> QED
          BY <1>1, <4>1, FitsFrame
      <3>4. CASE p # Server
        <4>1. proc'[Server] = proc[Server]
          BY <1>1, <3>2, <3>4
        <4>2. \A g \in 1..Len(files) : opens'[g] = opens[g] /\ bytes'[g] = bytes[g]
          BY <2>1, <3>1, <3>4
        <4>3. Counted(proc[Server])'
          BY <4>1, <4>2, CountedFrame
        <4> QED
          BY <3>1, <3>3, <3>4, <4>3 DEF Bounded, Fits, Counted
      <3>5. CASE p = Server
        <4> DEFINE k == opens[f] - 1
                   a == PerOpening * k
                   size == proc[p].size
        <4>1. k \in Nat /\ opens[f] = k + 1 /\ opens[f] > 0 /\ bytes[f] <= a + size /\ bytes[f] \in Nat
          BY <1>1, <2>3, <3>5 DEF Bounded
        <4>2. size \in Nat /\ size < MaxSize
          BY <1>1, <2>1, <2>3, <3>5 DEF Rotates, Loggers
        <4>3. a \in Nat /\ PerOpening * (k + 1) = a + PerOpening
          BY <4>1, Constants, Products
        <4>4. bytes'[f] = bytes[f] + n
          BY <3>1, <3>5
        <4>5. proc'[Server] = r /\ r.size = size + n
          BY <1>1, <3>2, <3>5
        <4> HIDE DEF k, a, size
        <4>6. bytes'[f] <= a + (size + n) /\ bytes'[f] <= a + PerOpening
          BY <4>1, <4>2, <4>3, <4>4, Constants
        <4>7. Fits(f)'
          BY <2>1, <4>1, <4>3, <4>6 DEF Fits
        <4>8. Counted(proc[Server])'
          BY <2>1, <3>2, <4>1, <4>5, <4>6 DEF Counted, a, k
        <4> QED
          BY <3>1, <3>3, <4>7, <4>8 DEF Bounded, Fits, Counted
      <3> QED
        BY <3>4, <3>5
    <2>4. proc[p].file # 0 => proc[p].file \in 1..Len(files)
      BY <1>1 DEF Types, Loggers
    <2> QED
      BY <2>1, <2>2, <2>3, <2>4
  <1> QED
    BY <1>4, <1>5, <1>6, <1>7, <1>8, Forms

LEMMA KeptNext ==
    ASSUME IInv, [Next]_vars
    PROVE  Kept'
  <1>1. /\ entry \in [Days -> Nat] /\ proc \in [Procs -> Loggers] /\ Types /\ Small /\ Rotates /\ Kept
        /\ day \in Days /\ Server \in Procs /\ Len(files) \in Nat
    BY LenProperties DEF IInv, Types, Procs
  <1> DEFINE Old(f, l) == f \in 1..Len(files) /\ l \in files[f] /\ l[1] = Server
             Held(f, l) == (\E d \in Days : entry'[d] = f) \/ Saved(l)'
  <1>2. ASSUME NEW f, NEW l, Old(f, l)
        PROVE  (\E d \in Days : entry[d] = f) \/ Saved(l)
    BY <1>1, <1>2 DEF Kept, OfServer
  <1>3. ASSUME \A f \in 1..Len(files') : \A l \in files'[f] : l[1] = Server => Held(f, l)
        PROVE  Kept'
    BY <1>3 DEF Kept, OfServer
  <1>4. ASSUME Grown, NEW f, NEW l, Old(f, l),
               \A d \in Days : entry[d] # 0 => entry'[d] = entry[d]
        PROVE  Held(f, l)
    <2>1. f # 0
      BY <1>1, <1>4
    <2> QED
      BY <1>1, <1>2, <1>4, <2>1, SavedStays
  <1>5. ASSUME Grown, files' = files, entry' = entry
        PROVE  Kept'
    BY <1>3, <1>4, <1>5
  <1>6. CASE Quiet
    BY <1>1, <1>5, <1>6, GrownSame DEF Quiet
  <1>7. ASSUME NEW p \in Procs, Kill(p)
        PROVE  Kept'
    BY <1>5, <1>7, KillEffect
  <1>8. ASSUME NEW p \in Procs, NEW f \in Nat \ {0}, Opening(p, f)
        PROVE  Kept'
    <2>1. /\ Grown
          /\ \A d \in Days : entry[d] # 0 => entry'[d] = entry[d]
          /\ \A g \in 1..Len(files') : /\ g \in 1..Len(files) => files'[g] = files[g]
                                       /\ g \notin 1..Len(files) => files'[g] = {}
      BY <1>1, <1>8, GrownSame, OpenedKeepsEntries DEF Opening, Opened
    <2>2. ASSUME NEW g \in 1..Len(files'), NEW l \in files'[g], l[1] = Server
          PROVE  Held(g, l)
      <3>1. Old(g, l)
        BY <2>1, <2>2
      <3> QED
        BY <1>4, <2>1, <3>1
    <2> QED
      BY <1>3, <2>2
  <1>9. ASSUME NEW p \in Procs, NEW n \in 1..MaxLine, Log(p, n)
        PROVE  Kept'
    <2>1. /\ UNCHANGED <<entry, archives>>
          /\ \/ UNCHANGED <<files, bytes, proc>>
             \/ proc[p].file # 0 /\ Logged(p, proc[p].file, n)
      BY <1>1, <1>9, LogEffect
    <2>2. Grown
      BY <1>1, <2>1, GrownSame
    <2>3. CASE UNCHANGED <<files, bytes, proc>>
      BY <1>5, <2>1, <2>2, <2>3
    <2>4. CASE proc[p].file # 0 /\ Logged(p, proc[p].file, n)
      <3> DEFINE f == proc[p].file
      <3>1. /\ Len(files') = Len(files) /\ files'[f] = files[f] \cup {<<p, lines[p] + 1>>}
            /\ \A g \in 1..Len(files) : g # f => files'[g] = files[g]
        BY <2>4 DEF Logged
      <3>2. ASSUME NEW g \in 1..Len(files'), NEW l \in files'[g], l[1] = Server
            PROVE  Held(g, l)
        <4>1. CASE Old(g, l)
          BY <1>4, <2>1, <2>2, <4>1
        <4>2. CASE ~Old(g, l)
          <5>1. g = f /\ l = <<p, lines[p] + 1>>
            BY <3>1, <3>2, <4>2
          <5>2. p = Server
            BY <3>2, <5>1
          <5>3. f # 0 /\ proc[Server].date \in Days /\ entry[proc[Server].date] = f
            BY <1>1, <2>4, <5>2 DEF Rotates
          <5> QED
            BY <2>1, <5>1, <5>3
        <4> QED
          BY <4>1, <4>2
      <3> QED
        BY <1>3, <3>2
    <2> QED
      BY <2>1, <2>3, <2>4
  <1>10. ASSUME NEW r \in Loggers, Closing(r)
         PROVE  Kept'
    <2>1. /\ Grown /\ files' = files
          /\ \/ entry' = entry
             \/ /\ proc[Server].pc = "archived" /\ proc[Server].date \in Days
                /\ entry' = [entry EXCEPT ![proc[Server].date] = 0]
      BY <1>10 DEF Closing
    <2>2. CASE entry' = entry
      BY <1>5, <2>1, <2>2
    <2>3. ASSUME NEW e \in Days, e = proc[Server].date, proc[Server].pc = "archived",
                 entry' = [entry EXCEPT ![e] = 0]
          PROVE  Kept'
      <3>1. \A l \in OfServer(entry[e]) : Saved(l)
        BY <1>1, <2>3 DEF Rotates
      <3>2. ASSUME NEW g \in 1..Len(files'), NEW l \in files'[g], l[1] = Server
            PROVE  Held(g, l)
        <4>1. Old(g, l)
          BY <2>1, <3>2
        <4>2. CASE Saved(l)
          BY <1>1, <2>1, <4>2, SavedStays
        <4>3. CASE ~Saved(l)
          <5>1. PICK d \in Days : entry[d] = g
            BY <1>2, <4>1, <4>3
          <5>2. d # e
            BY <3>1, <4>1, <4>3, <5>1 DEF OfServer
          <5> QED
            BY <1>1, <2>3, <5>1, <5>2
        <4> QED
          BY <4>2, <4>3
      <3> QED
        BY <1>3, <3>2
    <2> QED
      BY <2>1, <2>2, <2>3
  <1> QED
    BY <1>6, <1>7, <1>8, <1>9, <1>10, Forms

LEMMA IInvNext ==
    ASSUME IInv, [Next]_vars
    PROVE  IInv'
  BY TypesNext, SmallNext, RotatesNext, BoundedNext, KeptNext DEF IInv

\* The invariant holds: a rotation's entry is that of the server's own file,
\* and every line of the server is in a file that has its entry or in a
\* finished archive.
THEOREM IInvHolds == Spec => []IInv
  BY IInvInit, IInvNext, PTL DEF Spec
-----------------------------------------------------------------------------
(***************************************************************************)
(* What a reader relies on.                                                *)
(***************************************************************************)
LEMMA FilesDomain ==
    ASSUME IInv
    PROVE  DOMAIN files = 1..Len(files) /\ Len(files) \in Nat
  BY LenProperties DEF IInv, Types

\* No line of the server that has reached a file is lost (RotateLogFile),
\* whichever way rotations end and wherever the server is killed.
THEOREM LinesSurvive == Spec => []ServerLinesSurvive
  <1>1. ASSUME IInv
        PROVE  ServerLinesSurvive
    <2>1. \A d \in Days : DOMAIN archives[d] = 1..Len(archives[d])
      BY <1>1, LenProperties DEF IInv, Types
    <2>2. ASSUME NEW f \in 1..Len(files), NEW l \in files[f], l[1] = Server
          PROVE  (\E d \in Days : entry[d] = f) \/ Saved(l)
      BY <1>1, <2>2 DEF IInv, Kept, OfServer
    <2> QED
      BY <1>1, <2>1, <2>2, FilesDomain DEF ServerLinesSurvive, Saved
  <1> QED
    BY <1>1, IInvHolds, PTL

\* Between two openings the server writes less to a file than max_file_size
\* and a line, for lines of any length, since Log compares the size when the
\* line is written; and a rotation finds the entry of the file it archives
\* (Log, RotateLogFile).
THEOREM FilesAreInOrder == Spec => []FilesInv
  <1>1. ASSUME IInv
        PROVE  FilesInv
    <2>1. Types /\ Small /\ Rotates
      BY <1>1 DEF IInv
    <2>2. MaxLines \in Nat /\ ToolLines \in Nat
      BY LoggerAssumption
    <2>3. lines \in [Procs -> 0..(MaxLines + ToolLines)]
      <3>1. \A p \in Procs : lines[p] \in Nat /\ lines[p] <= MaxLines + ToolLines
        BY <2>1, <2>2 DEF Types, Small, Procs
      <3> QED
        BY <2>1, <2>2, <3>1 DEF Types
    <2>4. \A p \in Procs : /\ proc[p] \in Loggers /\ proc[p].file \in 0..Len(files)
      BY <1>1, <2>1, FilesDomain DEF Types, Loggers
    <2>5. ASSUME NEW p \in Procs, proc[p].pc \in {"full", "archived"}
          PROVE  entry[proc[p].date] # 0
      BY <1>1, <2>1, <2>5, ServerRotates DEF Rotates
    <2>6. entry \in [Days -> 0..Len(files)]
      BY <1>1, <2>1, FilesDomain DEF Types
    <2>7. TypeOK
      BY <2>1, <2>3, <2>4, <2>5, <2>6 DEF TypeOK, Types, Loggers, Archives
    <2>8. RotatedInTime
      BY <1>1, FilesDomain DEF IInv, Bounded, RotatedInTime
    <2> QED
      BY <2>7, <2>8 DEF FilesInv
  <1> QED
    BY <1>1, IInvHolds, PTL

\* In every step archives are added, and none changes.
LEMMA GrownNext ==
    ASSUME IInv, [Next]_vars
    PROVE  Grown
  <1>1. Types /\ Small /\ Rotates
    BY DEF IInv
  <1>2. CASE Quiet
    BY <1>1, <1>2, GrownSame DEF Quiet
  <1>3. ASSUME NEW p \in Procs, NEW f \in Nat \ {0}, Opening(p, f)
        PROVE  Grown
    BY <1>1, <1>3, GrownSame DEF Opening
  <1>4. ASSUME NEW p \in Procs, NEW n \in 1..MaxLine, Log(p, n)
        PROVE  Grown
    BY <1>1, <1>4, LogEffect, GrownSame
  <1>5. ASSUME NEW p \in Procs, Kill(p)
        PROVE  Grown
    BY <1>5, KillEffect
  <1>6. ASSUME NEW r \in Loggers, Closing(r)
        PROVE  Grown
    BY <1>6 DEF Closing
  <1> QED
    BY <1>2, <1>3, <1>4, <1>5, <1>6, Forms

\* No archive is overwritten (RotateLogFile takes a name that does not exist).
THEOREM ArchivesAreKept == Spec => ArchivesStay
  <1> DEFINE Stay == \A d \in Days : \A k \in DOMAIN archives[d] :
                        k \in DOMAIN archives'[d] /\ archives'[d][k] = archives[d][k]
  <1>1. ASSUME IInv, [Next]_vars
        PROVE  Stay
    <2>1. \A d \in Days : DOMAIN archives[d] = 1..Len(archives[d])
      BY <1>1, LenProperties DEF IInv, Types
    <2>2. \A d \in Days : DOMAIN archives'[d] = 1..Len(archives'[d])
      BY <1>1, GrownNext, LenProperties DEF Grown
    <2> QED
      BY <1>1, <2>1, <2>2, GrownNext DEF Grown
  <1>2. ASSUME IInv, [Next]_vars
        PROVE  [Stay]_vars
    BY <1>1, <1>2
  <1> HIDE DEF Stay
  <1>3. Spec => [][Stay]_vars
    BY <1>2, IInvHolds, PTL DEF Spec
  <1> QED
    BY <1>3 DEF ArchivesStay, Stay
=============================================================================
