-------------------------------- MODULE TpsProofs --------------------------------
(***************************************************************************)
(* Theorems about Tps, for every number of processes, of entries that the  *)
(* kernel hands out at once, and every way they start and exit.            *)
(***************************************************************************)
EXTENDS Tps, LeastElement

\* Where an entry is in hand.
Busy == {"stat", "open", "read", "close", "print"}

TypeInv ==
    /\ DOMAIN running \subseteq Pid /\ running \in [DOMAIN running -> Name]
    /\ pc \in Busy \cup {"opendir", "readdir", "closedir", "returned_0", "returned_1",
                         "undefined"}
    /\ position \in Nat
    /\ buffer \subseteq Pid \/ buffer \subseteq Other
    /\ line \in Name \cup {None}
    /\ printed \in Seq(Pid \X Name)

\* The directory is open from opendir to closedir, the status file from open to close.
FdsInv ==
    fds = IF pc \in {"opendir", "returned_0", "returned_1"} THEN 0
          ELSE IF pc \in {"read", "close"} THEN 2 ELSE 1

HistoryInv ==
    /\ lasting \subseteq DOMAIN running
    /\ \A p \in DOMAIN running : <<p, running[p]>> \in seen

\* The entry in hand was the first of those that were read, and all of them are
\* behind the position of the directory.
EntryInv ==
    /\ pc = "opendir" => buffer = {}
    /\ \A p \in buffer \cap Pid : p < position
    /\ pc \in Busy => /\ entry \in Pid /\ entry < position
                      /\ buffer \subseteq Pid /\ \A p \in buffer : entry < p

\* The status file is that of the process in hand, and dead once that exits, even if
\* its pid is given to another process before the file is read.
FileInv ==
    /\ pc \notin {"read", "close"} => status_file = "closed"
    /\ status_file = "open" => entry \in DOMAIN running
    /\ pc \in {"read", "close"} /\ entry \in lasting => status_file = "open"

LineInv ==
    /\ pc \in {"close", "print"} /\ line # None => <<entry, line>> \in seen
    /\ pc \in {"close", "print"} /\ entry \in lasting => line = running[entry]
    /\ pc = "print" => line # None

\* The lines are of pids below every one that is still to come.
OrderInv ==
    \A i \in 1 .. Len(printed) :
        /\ printed[i][1] < position
        /\ \A p \in buffer \cap Pid : printed[i][1] < p
        /\ pc \in Busy => printed[i][1] < entry

\* A process that has lasted is ahead, in the buffer, in hand or printed.
ListedInv ==
    pc \notin {"returned_1", "undefined"} =>
        \A p \in lasting :
            \/ pc \notin {"closedir", "returned_0"} /\ p >= position
            \/ pc \notin {"closedir", "returned_0"} /\ p \in buffer
            \/ pc \in Busy /\ p = entry
            \/ \E i \in 1 .. Len(printed) : printed[i] = <<p, running[p]>>

Inv ==
    /\ TypeInv /\ FdsInv /\ HistoryInv /\ EntryInv /\ FileInv /\ LineInv
    /\ OrderInv /\ LinesAreProcesses /\ ListedInv

--------------------------------------------------------------------------------
(* The parts of Inv.                                                         *)

LEMMA PidsAreNumbers == \A p \in Pid : p \in Nat /\ p # None /\ p \notin Other
  BY TpsAssumption DEF None

\* readdir takes the least pid of the buffer.
LEMMA FirstIsLeast ==
    ASSUME NEW S, S \subseteq Pid, S # {}
    PROVE  FirstOf(S) \in S /\ \A p \in S : FirstOf(S) <= p
<1>1. S \subseteq Nat
  BY PidsAreNumbers
<1>2. \E p \in S : \A q \in S : p <= q
  BY <1>1, LeastExists
<1> QED BY <1>2 DEF FirstOf

LEMMA InitInv == Init => Inv
<1> SUFFICES ASSUME Init PROVE Inv
  OBVIOUS
<1>1. DOMAIN running \subseteq Pid /\ running \in [DOMAIN running -> Name]
  BY DEF Init
<1>2. \A p \in Pid : p >= 0
  BY PidsAreNumbers
<1>3. TypeInv
  BY <1>1 DEF Init, TypeInv, Busy, None
<1>4. HistoryInv
  BY DEF Init, HistoryInv
<1>5. ListedInv
  BY <1>1, <1>2 DEF Init, ListedInv
<1>6. Len(printed) = 0
  BY DEF Init
<1> QED
  BY <1>3, <1>4, <1>5, <1>6
  DEF Init, Inv, FdsInv, EntryInv, FileInv, LineInv, OrderInv, LinesAreProcesses, Busy, None

LEMMA FdsStep ==
    ASSUME Inv, [Next]_vars
    PROVE  FdsInv'
<1>1. ASSUME UNCHANGED <<pc, fds>>
      PROVE  FdsInv'
  BY <1>1 DEF Inv, FdsInv
<1>2. ReadsAhead \/ (\E e \in Other : PassesOver(e)) => UNCHANGED <<pc, fds>>
  BY DEF ReadsAhead, PassesOver
<1>3. (\E p \in Pid : Exits(p) \/ \E name \in Name : Starts(p, name)) => UNCHANGED <<pc, fds>>
  BY DEF Exits, Starts, mainVars
<1>4. opendir \/ readdir \/ stat => FdsInv'
  BY DEF Inv, FdsInv, opendir, readdir, stat
<1>5. open \/ read \/ close => FdsInv'
  BY DEF Inv, FdsInv, open, read, close
<1>6. PrintProcName \/ closedir => FdsInv'
  BY DEF Inv, FdsInv, PrintProcName, closedir
<1> QED BY <1>1, <1>2, <1>3, <1>4, <1>5, <1>6 DEF Next, Main, vars

LEMMA HistoryStep ==
    ASSUME Inv, [Next]_vars
    PROVE  HistoryInv'
<1>1. ASSUME UNCHANGED kernelVars
      PROVE  HistoryInv'
  BY <1>1 DEF Inv, HistoryInv, kernelVars
<1>2. ASSUME NEW p \in Pid, Exits(p)
      PROVE  HistoryInv'
  BY <1>2 DEF Exits, Inv, HistoryInv
<1>3. ASSUME NEW p \in Pid, NEW name \in Name, Starts(p, name)
      PROVE  HistoryInv'
  BY <1>3 DEF Starts, Inv, HistoryInv
<1> QED
  BY <1>1, <1>2, <1>3 DEF Next, Main, opendir, ReadsAhead, PassesOver, readdir, stat, open,
         read, close, PrintProcName, closedir, vars, kernelVars

\* What the kernel hands out lies between the old position and the new one, and
\* none between them that runs is left out.
LEMMA ReadsAheadStep ==
    ASSUME Inv, ReadsAhead
    PROVE  /\ pc = "readdir" /\ UNCHANGED <<kernelVars, pc, entry, status_file, line, fds, printed>>
           /\ position \in Nat /\ position' \in Nat /\ position < position'
           /\ buffer = {} /\ buffer' \subseteq Pid
           /\ \A p \in buffer' : position <= p /\ p < position'
           /\ \A p \in DOMAIN running : p >= position => p \in buffer' \/ p >= position'
<1>1. /\ pc = "readdir" /\ buffer = {} /\ buffer' \subseteq Ahead
      /\ \A p \in buffer', q \in Ahead \ buffer' : p < q
      /\ UNCHANGED <<kernelVars, pc, entry, status_file, line, fds, printed>>
  BY DEF ReadsAhead
<1>2. PICK m \in buffer' : position' = m + 1 /\ \A q \in buffer' : q <= m
  BY DEF ReadsAhead
<1>3. position \in Nat /\ DOMAIN running \subseteq Pid
  BY DEF Inv, TypeInv
<1>4. Ahead \subseteq Pid /\ \A p \in Ahead : p \in Nat /\ position <= p
  BY <1>3, PidsAreNumbers DEF Ahead
<1>5. m \in Nat /\ position <= m /\ \A q \in buffer' : q \in Nat
  BY <1>1, <1>2, <1>4
<1>6. position' \in Nat /\ position < position'
  BY <1>2, <1>3, <1>5
<1>7. ASSUME NEW p \in buffer'
      PROVE  position <= p /\ p < position'
  BY <1>1, <1>2, <1>4, <1>5
<1>8. ASSUME NEW p \in DOMAIN running, p >= position, p \notin buffer'
      PROVE  p >= position'
  <2>1. p \in Ahead \ buffer' /\ p \in Nat
    BY <1>3, <1>8, PidsAreNumbers DEF Ahead
  <2>2. m < p
    BY <1>1, <2>1
  <2> QED BY <1>2, <1>5, <2>1, <2>2
<1> QED BY <1>1, <1>3, <1>4, <1>6, <1>7, <1>8

\* readdir takes the least pid of the buffer, and ends when nothing is left.
LEMMA ReaddirStep ==
    ASSUME Inv, readdir
    PROVE  /\ pc = "readdir" /\ buffer \subseteq Pid
           /\ UNCHANGED <<kernelVars, position, status_file, line, fds, printed>>
           /\ \/ /\ pc' = "stat" /\ entry' \in buffer /\ buffer' = buffer \ {entry'}
                 /\ \A p \in buffer : entry' <= p
              \/ /\ pc' = "closedir" /\ buffer = {} /\ UNCHANGED <<entry, buffer>>
                 /\ \A p \in DOMAIN running : ~(p >= position)
<1>1. buffer \subseteq Pid
  BY DEF Inv, TypeInv, readdir
<1>2. CASE buffer # {}
  <2>1. pc' = "stat" /\ entry' = FirstOf(buffer) /\ buffer' = buffer \ {entry'}
    BY <1>2 DEF readdir
  <2> QED BY <1>1, <1>2, <2>1, FirstIsLeast DEF readdir
<1>3. CASE buffer = {}
  BY <1>1, <1>3 DEF readdir, Ahead
<1> QED BY <1>2, <1>3

\* The steps of main that only move an entry on, or finish with it.
Handles == stat \/ open \/ read \/ close \/ PrintProcName \/ closedir

LEMMA HandlesStep ==
    ASSUME Handles
    PROVE  /\ UNCHANGED <<kernelVars, position, buffer, entry>>
           /\ pc \in Busy \cup {"closedir"}
           /\ pc' \in (IF pc \in Busy THEN Busy \cup {"readdir", "undefined"} ELSE {"returned_0"})
           /\ printed' = printed \/ PrintProcName
  BY DEF Handles, stat, open, read, close, PrintProcName, closedir, Busy

LEMMA NextCases ==
    ASSUME [Next]_vars
    PROVE  \/ opendir \/ ReadsAhead \/ (\E e \in Other : PassesOver(e)) \/ readdir \/ Handles
           \/ (\E p \in Pid : Exits(p)) \/ (\E p \in Pid, name \in Name : Starts(p, name))
           \/ UNCHANGED vars
  BY DEF Next, Main, Handles

LEMMA EntryStep ==
    ASSUME Inv, [Next]_vars
    PROVE  EntryInv'
<1>0. Other \cap Pid = {}
  BY TpsAssumption
<1>1. ASSUME UNCHANGED <<pc, position, buffer, entry>>
      PROVE  EntryInv'
  BY <1>1 DEF Inv, EntryInv
<1>2. CASE opendir
  BY <1>0, <1>2 DEF Inv, opendir, EntryInv, Busy
<1>3. CASE ReadsAhead
  BY <1>3, ReadsAheadStep DEF EntryInv, Busy
<1>4. CASE \E e \in Other : PassesOver(e)
  <2>1. pc' = "readdir" /\ position' = position /\ buffer' \subseteq buffer
    BY <1>4 DEF PassesOver
  <2> QED BY <2>1 DEF Inv, EntryInv, Busy
<1>5. CASE readdir
  <2>1. \A p \in buffer : p \in Nat /\ p < position
    BY <1>5, ReaddirStep, PidsAreNumbers DEF Inv, EntryInv
  <2>2. CASE pc' = "stat" /\ entry' \in buffer
    <3>1. \A p \in buffer' : entry' < p
      BY <1>5, <2>1, <2>2, ReaddirStep
    <3> QED BY <1>5, <2>1, <2>2, <3>1, ReaddirStep DEF EntryInv
  <2>3. CASE pc' = "closedir"
    BY <1>5, <2>3, ReaddirStep DEF EntryInv, Busy
  <2> QED BY <1>5, <2>2, <2>3, ReaddirStep
<1>6. CASE Handles
  <2>1. pc' # "opendir" /\ (pc' \in Busy => pc \in Busy)
    BY <1>6, HandlesStep DEF Busy
  <2> QED BY <1>6, <2>1, HandlesStep DEF Inv, EntryInv
<1>7. CASE (\E p \in Pid : Exits(p)) \/ (\E p \in Pid, name \in Name : Starts(p, name))
  BY <1>1, <1>7 DEF Exits, Starts, mainVars
<1> QED BY <1>1, <1>2, <1>3, <1>4, <1>5, <1>6, <1>7, NextCases DEF vars

LEMMA TypeStep ==
    ASSUME Inv, [Next]_vars
    PROVE  TypeInv'
<1>0. TypeInv
  BY DEF Inv
<1>1. CASE opendir
  BY <1>0, <1>1 DEF opendir, TypeInv, kernelVars
<1>2. CASE ReadsAhead
  BY <1>0, <1>2, ReadsAheadStep DEF TypeInv, kernelVars
<1>3. CASE \E e \in Other : PassesOver(e)
  BY <1>0, <1>3 DEF PassesOver, TypeInv, kernelVars
<1>4. CASE readdir
  BY <1>0, <1>4, ReaddirStep DEF TypeInv, kernelVars, Busy
<1>5. CASE Handles
  <2>1. pc' \in Busy \cup {"readdir", "undefined", "returned_0"}
    BY <1>5, HandlesStep
  <2>2. line' \in Name \cup {None}
    BY <1>0, <1>5 DEF Handles, stat, open, read, close, PrintProcName, closedir, TypeInv,
                      FileInv, Inv
  <2>3. printed' \in Seq(Pid \X Name)
    <3>1. CASE printed' = printed
      BY <1>0, <3>1 DEF TypeInv
    <3>2. CASE PrintProcName /\ printed' = Append(printed, <<entry, line>>)
      <4>1. entry \in Pid /\ line \in Name
        BY <1>0, <3>2 DEF PrintProcName, Inv, TypeInv, EntryInv, LineInv, Busy
      <4> QED BY <1>0, <3>2, <4>1 DEF TypeInv
    <3> QED BY <1>5, <3>1, <3>2, HandlesStep DEF PrintProcName
  <2> QED BY <1>0, <1>5, <2>1, <2>2, <2>3, HandlesStep DEF TypeInv, kernelVars
<1>6. ASSUME NEW p \in Pid, Exits(p)
      PROVE  TypeInv'
  BY <1>0, <1>6 DEF Exits, TypeInv, mainVars
<1>7. ASSUME NEW p \in Pid, NEW name \in Name, Starts(p, name)
      PROVE  TypeInv'
  BY <1>0, <1>7 DEF Starts, TypeInv, mainVars
<1>8. CASE UNCHANGED vars
  BY <1>0, <1>8 DEF vars, TypeInv
<1> QED BY <1>1, <1>2, <1>3, <1>4, <1>5, <1>6, <1>7, <1>8, NextCases

LEMMA FileStep ==
    ASSUME Inv, [Next]_vars
    PROVE  FileInv'
<1>0. FileInv /\ lasting \subseteq DOMAIN running
  BY DEF Inv, HistoryInv
<1>1. ASSUME pc \notin {"read", "close"}, pc' \notin {"read", "close"},
             status_file' = status_file
      PROVE  FileInv'
  BY <1>0, <1>1 DEF FileInv
<1>2. opendir \/ ReadsAhead \/ (\E e \in Other : PassesOver(e)) \/ readdir => FileInv'
  <2>1. opendir \/ ReadsAhead \/ (\E e \in Other : PassesOver(e)) => FileInv'
    BY <1>1 DEF opendir, ReadsAhead, PassesOver
  <2>2. readdir => FileInv'
    BY <1>1, ReaddirStep
  <2> QED BY <2>1, <2>2
<1>3. stat \/ PrintProcName \/ closedir => FileInv'
  BY <1>1 DEF stat, PrintProcName, closedir
<1>4. CASE open
  BY <1>0, <1>4 DEF open, FileInv, kernelVars
<1>5. CASE read
  BY <1>0, <1>5 DEF read, FileInv, kernelVars
<1>6. CASE close
  BY <1>0, <1>6 DEF close, FileInv, kernelVars
<1>7. ASSUME NEW p \in Pid, Exits(p)
      PROVE  FileInv'
  BY <1>0, <1>7 DEF Exits, FileInv, mainVars
<1>8. ASSUME NEW p \in Pid, NEW name \in Name, Starts(p, name)
      PROVE  FileInv'
  BY <1>0, <1>8 DEF Starts, FileInv, mainVars
<1>9. CASE UNCHANGED vars
  BY <1>0, <1>9 DEF vars, FileInv
<1> QED BY <1>2, <1>3, <1>4, <1>5, <1>6, <1>7, <1>8, <1>9, NextCases DEF Handles

LEMMA LineStep ==
    ASSUME Inv, [Next]_vars
    PROVE  LineInv'
<1>0. LineInv /\ FileInv /\ HistoryInv
  BY DEF Inv
<1>1. ASSUME pc' \notin {"close", "print"}
      PROVE  LineInv'
  BY <1>1 DEF LineInv
<1>2. opendir \/ ReadsAhead \/ (\E e \in Other : PassesOver(e)) => LineInv'
  BY <1>1 DEF opendir, ReadsAhead, PassesOver
<1>3. readdir => LineInv'
  BY <1>1, ReaddirStep
<1>4. stat \/ open \/ PrintProcName \/ closedir => LineInv'
  BY <1>1 DEF stat, open, PrintProcName, closedir
<1>5. CASE read
  <2>1. status_file = "open" => <<entry, running[entry]>> \in seen
    BY <1>0 DEF FileInv, HistoryInv
  <2> QED BY <1>0, <1>5, <2>1 DEF read, LineInv, FileInv, kernelVars
<1>6. CASE close
  BY <1>0, <1>6 DEF close, LineInv, kernelVars
<1>7. ASSUME NEW p \in Pid, Exits(p)
      PROVE  LineInv'
  BY <1>0, <1>7 DEF Exits, LineInv, HistoryInv, mainVars
<1>8. ASSUME NEW p \in Pid, NEW name \in Name, Starts(p, name)
      PROVE  LineInv'
  BY <1>0, <1>8 DEF Starts, LineInv, HistoryInv, mainVars
<1>9. CASE UNCHANGED vars
  BY <1>0, <1>9 DEF vars, LineInv
<1> QED BY <1>2, <1>3, <1>4, <1>5, <1>6, <1>7, <1>8, <1>9, NextCases DEF Handles

\* A line is put behind the others, or none is written.
LEMMA PrintStep ==
    ASSUME Inv, PrintProcName
    PROVE  /\ Len(printed) \in Nat /\ pc = "print" /\ pc' \in {"readdir", "undefined"}
           /\ UNCHANGED <<kernelVars, position, buffer, entry>>
           /\ entry \in Pid /\ <<entry, line>> \in seen
           /\ \A i \in 1 .. Len(printed) : printed'[i] = printed[i]
           /\ \/ pc' = "undefined" /\ printed' = printed
              \/ /\ Len(printed') = Len(printed) + 1
                 /\ printed'[Len(printed) + 1] = <<entry, line>>
<1>1. printed \in Seq(Pid \X Name) /\ pc = "print"
  BY DEF Inv, TypeInv, PrintProcName
<1>2. entry \in Pid /\ line \in Name /\ <<entry, line>> \in seen
  BY <1>1 DEF Inv, TypeInv, EntryInv, LineInv, Busy
<1>3. CASE printed' = Append(printed, <<entry, line>>) /\ pc' = "readdir"
  BY <1>1, <1>2, <1>3 DEF PrintProcName
<1>4. CASE printed' = printed /\ pc' = "undefined"
  BY <1>1, <1>2, <1>4 DEF PrintProcName
<1> QED BY <1>3, <1>4 DEF PrintProcName

LEMMA OrderStep ==
    ASSUME Inv, [Next]_vars
    PROVE  OrderInv'
<1>0. OrderInv /\ position \in Nat /\ Other \cap Pid = {}
  BY TpsAssumption DEF Inv, TypeInv
<1>1. ASSUME NEW i \in 1 .. Len(printed)
      PROVE  printed[i][1] \in Nat
  <2>1. printed[i] \in Pid \X Name
    BY DEF Inv, TypeInv
  <2> QED BY <2>1, PidsAreNumbers
<1>2. CASE opendir
  BY <1>0, <1>2 DEF opendir, OrderInv, Busy
<1>3. CASE ReadsAhead
  <2>1. \A i \in 1 .. Len(printed) : printed[i][1] < position
    BY <1>0 DEF OrderInv
  <2>2. \A p \in buffer' : p \in Nat
    BY <1>3, ReadsAheadStep, PidsAreNumbers
  <2> QED BY <1>1, <1>3, <2>1, <2>2, ReadsAheadStep DEF OrderInv, Busy
<1>4. CASE \E e \in Other : PassesOver(e)
  <2>1. pc' = "readdir" /\ buffer' \subseteq buffer /\ UNCHANGED <<position, printed>>
    BY <1>4 DEF PassesOver
  <2> QED BY <1>0, <2>1 DEF OrderInv, Busy
<1>5. CASE readdir
  <2>1. UNCHANGED <<position, printed>> /\ buffer' \subseteq buffer
        /\ (pc' \in Busy => entry' \in buffer \cap Pid)
    BY <1>5, ReaddirStep DEF Busy
  <2> QED BY <1>0, <2>1 DEF OrderInv
<1>6. CASE Handles /\ printed' = printed
  <2>1. UNCHANGED <<position, buffer, entry>> /\ (pc' \in Busy => pc \in Busy)
    BY <1>6, HandlesStep DEF Busy
  <2> QED BY <1>0, <1>6, <2>1 DEF OrderInv
<1>7. CASE PrintProcName
  <2>1. /\ entry \in Nat /\ entry < position /\ \A p \in buffer : entry < p
        /\ pc \in Busy /\ pc' \notin Busy
    BY <1>7, PrintStep, PidsAreNumbers DEF Inv, EntryInv, Busy
  <2>2. \A i \in 1 .. Len(printed) : printed'[i] = printed[i]
    BY <1>7, PrintStep
  <2>3. ASSUME NEW i \in 1 .. Len(printed')
        PROVE  \/ i \in 1 .. Len(printed)
               \/ i = Len(printed) + 1 /\ printed'[i] = <<entry, line>>
    BY <1>7, PrintStep
  <2>4. ASSUME NEW i \in 1 .. Len(printed')
        PROVE  /\ printed'[i][1] < position
               /\ \A p \in buffer \cap Pid : printed'[i][1] < p
    BY <1>0, <2>1, <2>2, <2>3 DEF OrderInv
  <2> QED BY <1>7, <2>1, <2>4, PrintStep DEF OrderInv
<1>8. CASE (\E p \in Pid : Exits(p)) \/ (\E p \in Pid, name \in Name : Starts(p, name))
  BY <1>0, <1>8 DEF Exits, Starts, mainVars, OrderInv
<1>9. CASE UNCHANGED vars
  BY <1>0, <1>9 DEF vars, OrderInv
<1> QED BY <1>2, <1>3, <1>4, <1>5, <1>6, <1>7, <1>8, <1>9, NextCases, HandlesStep

LEMMA LinesStep ==
    ASSUME Inv, [Next]_vars
    PROVE  LinesAreProcesses'
<1>0. LinesAreProcesses
  BY DEF Inv
<1>1. CASE printed' = printed
  <2>1. seen \subseteq seen'
    BY DEF Next, Main, opendir, ReadsAhead, PassesOver, readdir, stat, open, read, close,
           PrintProcName, closedir, Starts, Exits, kernelVars, vars
  <2> QED BY <1>0, <1>1, <2>1 DEF LinesAreProcesses
<1>2. CASE PrintProcName
  <2>1. \A i \in 1 .. Len(printed) : printed'[i] = printed[i] /\ printed[i][1] < entry
    BY <1>2, PrintStep DEF Inv, OrderInv, Busy
  <2>2. ASSUME NEW i \in 1 .. Len(printed')
        PROVE  \/ i \in 1 .. Len(printed)
               \/ i = Len(printed) + 1 /\ printed'[i] = <<entry, line>>
    BY <1>2, PrintStep
  <2>3. ASSUME NEW i \in 1 .. Len(printed')
        PROVE  printed'[i] \in seen'
    BY <1>0, <1>2, <2>1, <2>2, PrintStep DEF LinesAreProcesses, kernelVars
  <2>4. ASSUME NEW i \in 1 .. Len(printed'), NEW k \in 1 .. Len(printed'), i < k
        PROVE  printed'[i][1] < printed'[k][1]
    <3>1. i \in 1 .. Len(printed)
      BY <2>2, <2>4, <1>2, PrintStep
    <3>2. CASE k \in 1 .. Len(printed)
      BY <1>0, <2>1, <2>4, <3>1, <3>2 DEF LinesAreProcesses
    <3>3. CASE printed'[k] = <<entry, line>>
      BY <2>1, <3>1, <3>3
    <3> QED BY <2>2, <3>2, <3>3
  <2> QED BY <2>3, <2>4 DEF LinesAreProcesses
<1>3. printed' = printed \/ PrintProcName
  BY DEF Next, Main, opendir, ReadsAhead, PassesOver, readdir, stat, open, read, close,
         closedir, Starts, Exits, mainVars, vars
<1> QED BY <1>1, <1>2, <1>3

\* That a process is ahead, in the buffer, in hand or printed, for one process.
Listed(p) ==
    \/ pc \notin {"closedir", "returned_0"} /\ p >= position
    \/ pc \notin {"closedir", "returned_0"} /\ p \in buffer
    \/ pc \in Busy /\ p = entry
    \/ \E i \in 1 .. Len(printed) : printed[i] = <<p, running[p]>>

LEMMA ListedStep ==
    ASSUME Inv, [Next]_vars
    PROVE  ListedInv'
<1> SUFFICES ASSUME pc' \notin {"returned_1", "undefined"}, NEW p \in lasting'
             PROVE  Listed(p)'
  BY DEF ListedInv, Listed
<1>0. p \in lasting /\ p \in DOMAIN running /\ p \in Pid /\ running'[p] = running[p]
  <2>1. lasting \subseteq DOMAIN running /\ DOMAIN running \subseteq Pid
    BY DEF Inv, HistoryInv, TypeInv
  <2>2. ASSUME UNCHANGED kernelVars
        PROVE  p \in lasting /\ running'[p] = running[p]
    BY <2>2 DEF kernelVars
  <2>3. ASSUME NEW q \in Pid, Exits(q)
        PROVE  p \in lasting /\ running'[p] = running[p]
    BY <2>1, <2>3 DEF Exits
  <2>4. ASSUME NEW q \in Pid, NEW name \in Name, Starts(q, name)
        PROVE  p \in lasting /\ running'[p] = running[p]
    BY <2>1, <2>4 DEF Starts
  <2>5. p \in lasting /\ running'[p] = running[p]
    BY <2>2, <2>3, <2>4, NextCases, ReaddirStep, ReadsAheadStep, HandlesStep
       DEF opendir, PassesOver, vars, kernelVars
  <2> QED BY <2>1, <2>5
<1>1. Listed(p)
  <2>1. pc \notin {"returned_1", "undefined"}
    BY DEF Next, Main, opendir, ReadsAhead, PassesOver, readdir, stat, open, read, close,
           PrintProcName, closedir, Starts, Exits, mainVars, vars
  <2> QED BY <1>0, <2>1 DEF Inv, ListedInv, Listed
<1>2. ASSUME printed' = printed, \E i \in 1 .. Len(printed) : printed[i] = <<p, running[p]>>
      PROVE  Listed(p)'
  BY <1>0, <1>2 DEF Listed
<1>3. CASE opendir
  <2>1. pc = "opendir" /\ buffer = {} /\ pc' = "readdir" /\ UNCHANGED <<position, printed>>
    BY <1>3 DEF opendir, Inv, EntryInv
  <2> QED BY <1>0, <1>1, <2>1 DEF Listed, Busy
<1>4. CASE ReadsAhead
  BY <1>0, <1>1, <1>4, ReadsAheadStep DEF Listed, Busy
<1>5. ASSUME NEW e \in Other, PassesOver(e)
      PROVE  Listed(p)'
  <2>1. p # e
    BY <1>0, PidsAreNumbers
  <2> QED BY <1>0, <1>1, <1>5, <2>1 DEF PassesOver, Listed, Busy
<1>6. CASE readdir
  <2>1. pc = "readdir" /\ UNCHANGED <<position, printed>>
    BY <1>6, ReaddirStep
  <2>2. CASE pc' = "stat" /\ buffer' = buffer \ {entry'}
    BY <1>0, <1>1, <2>1, <2>2 DEF Listed, Busy
  <2>3. CASE pc' = "closedir" /\ buffer = {} /\ ~(p >= position)
    BY <1>0, <1>1, <2>1, <2>3 DEF Listed, Busy
  <2> QED BY <1>0, <1>6, <2>2, <2>3, ReaddirStep
<1>7. CASE Handles
  <2>1. UNCHANGED <<position, buffer, entry>>
    BY <1>7, HandlesStep
  <2>2. CASE stat \/ open \/ read
    BY <1>0, <1>1, <2>1, <2>2 DEF stat, open, read, Listed, Busy
  <2>3. CASE close
    <3>1. p = entry => line # None
      <4>1. running[p] \in Name
        BY <1>0 DEF Inv, TypeInv
      <4>2. p = entry => line = running[p]
        BY <1>0, <2>3 DEF Inv, LineInv, close
      <4> QED BY <4>1, <4>2, TpsAssumption DEF None
    <3> QED BY <1>0, <1>1, <2>1, <2>3, <3>1 DEF close, Listed, Busy
  <2>4. CASE PrintProcName
    <3>1. /\ Len(printed) \in Nat /\ Len(printed') = Len(printed) + 1
          /\ printed'[Len(printed) + 1] = <<entry, line>>
          /\ \A i \in 1 .. Len(printed) : printed'[i] = printed[i]
          /\ pc = "print" /\ pc' = "readdir"
      BY <2>4, PrintStep
    <3>2. p = entry => printed'[Len(printed) + 1] = <<p, running'[p]>>
      BY <1>0, <3>1 DEF Inv, LineInv
    <3>3. Len(printed) + 1 \in 1 .. Len(printed')
      BY <3>1
    <3>4. \A i \in 1 .. Len(printed) : i \in 1 .. Len(printed')
      BY <3>1
    <3>5. CASE p = entry
      BY <3>2, <3>3, <3>5 DEF Listed
    <3>6. CASE \E i \in 1 .. Len(printed) : printed[i] = <<p, running[p]>>
      BY <1>0, <3>1, <3>4, <3>6 DEF Listed
    <3>7. CASE p >= position \/ p \in buffer
      BY <2>1, <3>1, <3>7 DEF Listed
    <3> QED BY <1>1, <3>5, <3>6, <3>7 DEF Listed
  <2>5. CASE closedir
    BY <1>0, <1>1, <2>1, <2>5 DEF closedir, Listed, Busy
  <2> QED BY <1>7, <2>2, <2>3, <2>4, <2>5 DEF Handles
<1>8. CASE UNCHANGED mainVars
  BY <1>0, <1>1, <1>8 DEF mainVars, Listed
<1>9. (\E q \in Pid : Exits(q)) \/ (\E q \in Pid, name \in Name : Starts(q, name))
          \/ UNCHANGED vars => UNCHANGED mainVars
  BY DEF Exits, Starts, mainVars, vars
<1> QED BY <1>3, <1>4, <1>5, <1>6, <1>7, <1>8, <1>9, NextCases

--------------------------------------------------------------------------------
(* The theorems.                                                             *)

LEMMA Invariant == Spec => []Inv
<1>1. Inv /\ [Next]_vars => Inv'
  BY TypeStep, FdsStep, HistoryStep, EntryStep, FileStep, LineStep, OrderStep, LinesStep,
     ListedStep DEF Inv
<1> QED BY <1>1, InitInv, PTL DEF Spec

\* One descriptor is open between two entries and none when main returns, whichever
\* processes exit between stat, open and read.
THEOREM Descriptors == Spec => []DescriptorsAreClosed
<1>1. Inv => DescriptorsAreClosed
  BY DEF Inv, FdsInv, DescriptorsAreClosed
<1> QED BY <1>1, Invariant, PTL

\* Every line is of a process that ran during the pass under this pid and name, and
\* the pids increase, although pids are given again during the pass.
THEOREM Lines == Spec => []LinesAreProcesses
<1>1. Inv => LinesAreProcesses
  BY DEF Inv
<1> QED BY <1>1, Invariant, PTL

\* A process that runs from before opendir until main has returned 0 is listed,
\* however many entries a getdents returns and whatever starts and exits meanwhile.
THEOREM Lasting == Spec => []LastingAreListed
<1>1. Inv => LastingAreListed
  BY DEF Inv, ListedInv, LastingAreListed, Busy
<1> QED BY <1>1, Invariant, PTL
================================================================================
