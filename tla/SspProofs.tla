-------------------------------- MODULE SspProofs --------------------------------
(***************************************************************************)
(* Theorems about Ssp: the table and the streams, for every client; the    *)
(* statuses, for clients that print when none of their children is ending; *)
(* and the reasons to stop, for those that signal the last process only.   *)
(***************************************************************************)
EXTENDS Ssp, TLAPS

TableType ==
    /\ processes_size \in Nat \ {0}
    /\ ssp_id \in -1 .. processes_size - 1
    /\ processes \in [Entries -> [pid : Pid \cup {-1}, status : -1 .. 255]]

KernelType ==
    /\ child \in [Pid -> {"free", "running", "zombie", "reaped"}]
    /\ status_of \in [Pid -> 0 .. 255]
    /\ signalled \subseteq Pid

CallType ==
    /\ client \in Clients
    /\ call \in {"none", "wait", "unknown", "print"}
    /\ at \in 0 .. processes_size
    /\ process \in {"running", "EAGAIN", "ESRCH", "1"}

TypeInv == TableType /\ KernelType /\ CallType

\* An entry is of a process that was forked, and has a status only once it is reaped.
EntryInv ==
    \A i \in Used :
        /\ child[processes[i].pid] # "free"
        /\ processes[i].status >= 0 => child[processes[i].pid] = "reaped"

TableInv == TypeInv /\ EntriesAreDistinct /\ EntryInv

\* What a step may never do to an entry: EntriesAreKept says so of every step.
Kept ==
    \A i \in Used :
        /\ processes'[i].pid = processes[i].pid
        /\ processes[i].status >= 0 => processes'[i] = processes[i]

\* A client without the habit of printing early.
Patient == "prints early" \notin client

\* While ssp_print looks for unknown processes no known one is a zombie.
PrintInv == call = "unknown" => Known \cap Zombies = {}

\* ssp_wait leaves no entry behind without its status.
WaitInv == call = "wait" => \A i \in Used : i < at => processes[i].status >= 0

StatusInv == StatusesAreTrue /\ PrintInv /\ WaitInv

\* A client without any habit.
Plain == Patient /\ "signals any" \notin client

StopInv == Plain => OnlyForkFails

--------------------------------------------------------------------------------
(* The operations on the table.                                              *)

LEMMA RangeGrows ==
    \A m, n \in Int : /\ m <= n => \A i \in 0 .. m - 1 : i \in 0 .. n - 1
                      /\ m < n => \A i \in 0 .. m : i \in 0 .. n - 1
                      /\ m <= n => \A i \in 0 .. m : i \in 0 .. n
  OBVIOUS

\* ssp_proc_add puts its process after the last entry, whether or not the table
\* has to grow, and leaves every other entry as it is.
LEMMA AddStep ==
    ASSUME TableType, EntriesAreDistinct,
           NEW p \in Pid, NEW s \in -1 .. 255, ssp_proc_add(p, s)
    PROVE  /\ TableType' /\ processes_size' >= processes_size
           /\ ssp_id \in Int /\ -1 <= ssp_id /\ ssp_id' = ssp_id + 1
           /\ \A i \in Entries : i # ssp_id' => processes'[i] = processes[i]
           /\ processes'[ssp_id'] = [pid |-> p, status |-> s]
           /\ Used = 0 .. ssp_id /\ Used' = 0 .. ssp_id'
           /\ Known' = Known \cup {p}
<1>0. /\ processes_size \in Nat \ {0}
      /\ ssp_id \in Int /\ -1 <= ssp_id /\ ssp_id < processes_size
      /\ processes \in [Entries -> [pid : Pid \cup {-1}, status : -1 .. 255]]
  BY DEF TableType
<1>1. processes_size' \in Nat \ {0} /\ processes_size' >= processes_size
  BY <1>0 DEF ssp_proc_add, ssp_expand
<1>14. processes_size \in Int /\ processes_size' \in Int /\ processes_size <= processes_size'
  BY <1>0, <1>1
<1>2. ssp_id' = ssp_id + 1 /\ ssp_id' \in 0 .. processes_size' - 1
  BY <1>0 DEF ssp_proc_add, ssp_expand
<1>3. processes' = [i \in 0 .. processes_size' - 1 |->
                       IF i = ssp_id' THEN [pid |-> p, status |-> s]
                       ELSE IF i \in Entries THEN processes[i] ELSE Empty]
  BY DEF ssp_proc_add
<1>4. Empty \in [pid : Pid \cup {-1}, status : -1 .. 255]
  BY DEF Empty
<1>5. [pid |-> p, status |-> s] \in [pid : Pid \cup {-1}, status : -1 .. 255]
  OBVIOUS
<1>6. processes' \in [Entries' -> [pid : Pid \cup {-1}, status : -1 .. 255]]
  BY <1>0, <1>3, <1>4, <1>5 DEF Entries
<1>7. \A i \in Entries : i # ssp_id' => processes'[i] = processes[i]
  <2>1. \A i \in Entries : i \in 0 .. processes_size' - 1
    BY <1>14, RangeGrows DEF Entries
  <2> QED BY <2>1, <1>3
<1>8. processes'[ssp_id'] = [pid |-> p, status |-> s]
  BY <1>2, <1>3
<1>9. Used = 0 .. ssp_id
  BY DEF EntriesAreDistinct
<1>10. p # -1
  BY SspAssumption
<1>11. \A i \in Entries' : processes'[i].pid # -1 <=> i \in 0 .. ssp_id'
  <2> SUFFICES ASSUME NEW i \in 0 .. processes_size' - 1
               PROVE  processes'[i].pid # -1 <=> i \in 0 .. ssp_id'
    BY DEF Entries
  <2>1. CASE i = ssp_id'
    BY <2>1, <1>2, <1>8, <1>10
  <2>2. CASE i # ssp_id' /\ i \in Entries
    <3>1. processes'[i] = processes[i]
      BY <2>2, <1>7
    <3>2. i \in 0 .. ssp_id' <=> i \in 0 .. ssp_id
      BY <2>2, <1>0, <1>2
    <3> QED BY <2>2, <3>1, <3>2, <1>9 DEF Used
  <2>3. CASE i # ssp_id' /\ i \notin Entries
    <3>1. processes'[i].pid = -1
      BY <2>3, <1>3 DEF Empty
    <3>2. i \notin 0 .. ssp_id'
      BY <2>3, <1>0, <1>2 DEF Entries
    <3> QED BY <3>1, <3>2
  <2> QED BY <2>1, <2>2, <2>3
<1>12. Used' = 0 .. ssp_id'
  <2>1. ssp_id' \in Int /\ ssp_id' < processes_size'
    BY <1>2, <1>14
  <2>3. \A i \in 0 .. ssp_id' : i \in Entries'
    BY <2>1, <1>14, RangeGrows DEF Entries
  <2>2. Used' = {i \in Entries' : processes'[i].pid # -1}
    BY DEF Used
  <2> QED BY <2>1, <2>2, <2>3, <1>11
<1>13. Known' = Known \cup {p}
  <2>1. \A i \in 0 .. ssp_id : processes'[i] = processes[i]
    BY <1>0, <1>2, <1>7 DEF Entries
  <2>2. 0 .. ssp_id' = (0 .. ssp_id) \cup {ssp_id'}
    BY <1>0, <1>2
  <2> QED BY <2>1, <2>2, <1>8, <1>9, <1>12 DEF Known
<1>15. TableType'
  <2>1. ssp_id' \in -1 .. processes_size' - 1
    BY <1>2
  <2> QED BY <1>1, <1>6, <2>1 DEF TableType
<1> QED BY <1>0, <1>1, <1>2, <1>7, <1>8, <1>9, <1>12, <1>13, <1>15

\* ssp_check_exit writes at most the status of its entry, when the child of the
\* entry is reaped, and the status is the one that the child ended with.
LEMMA CheckStep ==
    ASSUME TableType, KernelType, PidsReturn = FALSE, NEW i \in Used, ssp_check_exit(i)
    PROVE  /\ TableType' /\ KernelType'
           /\ processes_size' = processes_size /\ ssp_id' = ssp_id
           /\ Used' = Used /\ Known' = Known
           /\ \A k \in Entries : processes'[k].pid = processes[k].pid
           /\ \A k \in Entries : k # i => processes'[k] = processes[k]
           /\ status_of' = status_of /\ signalled' = signalled
           /\ processes[i].pid \in Pid
           /\ IF child[processes[i].pid] = "zombie"
              THEN /\ processes'[i].status = status_of[processes[i].pid]
                   /\ child' = [child EXCEPT ![processes[i].pid] = "reaped"]
              ELSE processes' = processes /\ child' = child
<1> DEFINE p == processes[i].pid
<1>1. i \in Entries /\ p \in Pid
  BY DEF TableType, Used
<1>2. p \in Zombies <=> child[p] = "zombie"
  BY <1>1 DEF Zombies
<1>3. processes_size' = processes_size /\ ssp_id' = ssp_id /\ Entries' = Entries
  BY DEF ssp_check_exit, Entries
<1>4. CASE p \in Zombies
  <2>1. /\ processes' = [processes EXCEPT ![i].status = status_of[p]]
        /\ child' = [child EXCEPT ![p] = "reaped"]
        /\ status_of' = status_of /\ signalled' = signalled
    BY <1>4 DEF ssp_check_exit, Reap
  <2>2. status_of[p] \in -1 .. 255
    BY <1>1 DEF KernelType
  <2>3. processes' \in [Entries -> [pid : Pid \cup {-1}, status : -1 .. 255]]
    BY <2>1, <2>2, <1>1 DEF TableType
  <2>4. KernelType'
    BY <2>1, <1>1 DEF KernelType
  <2>5. \A k \in Entries : processes'[k].pid = processes[k].pid
    BY <2>1, <1>1 DEF TableType
  <2>6. \A k \in Entries : k # i => processes'[k] = processes[k]
    BY <2>1 DEF TableType
  <2>7. processes'[i].status = status_of[p]
    BY <2>1, <1>1 DEF TableType
  <2>8. TableType'
    BY <1>3, <2>3 DEF TableType
  <2>9. Used' = Used
    BY <1>3, <2>5 DEF Used
  <2>10. Known' = Known
    BY <2>5, <2>9 DEF Known, Used
  <2> QED BY <1>1, <1>2, <1>3, <1>4, <2>1, <2>4, <2>5, <2>6, <2>7, <2>8, <2>9, <2>10
<1>5. CASE p \notin Zombies
  <2>1. UNCHANGED <<tableVars, kernelVars>>
    BY <1>5, <1>3 DEF ssp_check_exit, tableVars, kernelVars
  <2>2. TableType' /\ KernelType' /\ Used' = Used /\ Known' = Known
    BY <2>1 DEF tableVars, kernelVars, TableType, KernelType, Entries, Used, Known
  <2> QED BY <1>1, <1>2, <1>3, <1>5, <2>1, <2>2 DEF tableVars, kernelVars
<1> QED BY <1>4, <1>5

\* Both keep one entry for a process, in the order in which they were added.
LEMMA CheckKeepsTable ==
    ASSUME TableType, KernelType, PidsReturn = FALSE, EntriesAreDistinct, EntryInv,
           NEW i \in Used, ssp_check_exit(i)
    PROVE  EntriesAreDistinct' /\ EntryInv' /\ Kept
<1>0. Used \subseteq Entries /\ Used' = Used /\ ssp_id' = ssp_id
  BY CheckStep DEF Used
<1>1. \A k \in Used : processes'[k].pid = processes[k].pid
  BY <1>0, CheckStep
<1>2. EntriesAreDistinct'
  BY <1>0, <1>1 DEF EntriesAreDistinct
<1>3. EntryInv'
  <2> SUFFICES ASSUME NEW k \in Used
               PROVE  /\ child'[processes[k].pid] # "free"
                      /\ processes'[k].status >= 0 => child'[processes[k].pid] = "reaped"
    BY <1>0, <1>1 DEF EntryInv
  <2>1. processes[k].pid \in Pid
    BY DEF TableType, Used
  <2>2. CASE k = i
    <3>1. CASE child[processes[i].pid] = "zombie"
      <4>1. child'[processes[i].pid] = "reaped"
        BY <3>1, CheckStep DEF KernelType
      <4> QED BY <4>1, <2>2
    <3>2. CASE child[processes[i].pid] # "zombie"
      BY <3>2, CheckStep DEF EntryInv
    <3> QED BY <3>1, <3>2
  <2>3. CASE k # i
    <3>1. processes[k].pid # processes[i].pid
      BY <2>3 DEF EntriesAreDistinct
    <3>2. child'[processes[k].pid] = child[processes[k].pid]
      BY <3>1, <2>1, CheckStep DEF KernelType
    <3>3. processes'[k] = processes[k]
      BY <2>3, <1>0, CheckStep
    <3> QED BY <3>2, <3>3 DEF EntryInv
  <2> QED BY <2>2, <2>3
<1>4. Kept
  <2> SUFFICES ASSUME NEW k \in Used, processes[k].status >= 0
               PROVE  processes'[k] = processes[k]
    BY <1>1 DEF Kept
  <2>1. CASE k = i
    <3>1. child[processes[i].pid] # "zombie"
      BY <2>1 DEF EntryInv
    <3> QED BY <2>1, <3>1, CheckStep
  <2>2. CASE k # i
    BY <2>2, <1>0, CheckStep
  <2> QED BY <2>1, <2>2
<1> QED BY <1>2, <1>3, <1>4

LEMMA AddKeepsTable ==
    ASSUME TableType, EntriesAreDistinct, EntryInv,
           NEW p \in Pid, p \notin Known, NEW s \in -1 .. 255, ssp_proc_add(p, s),
           \A q \in Pid \ {p} : child'[q] = child[q],
           child'[p] # "free", s >= 0 => child'[p] = "reaped"
    PROVE  TableType' /\ EntriesAreDistinct' /\ EntryInv' /\ Kept
<1>1. /\ Used = 0 .. ssp_id /\ Used' = 0 .. ssp_id'
      /\ ssp_id \in Int /\ -1 <= ssp_id /\ ssp_id' = ssp_id + 1
      /\ processes'[ssp_id'] = [pid |-> p, status |-> s]
  BY AddStep
<1>2. Used' = Used \cup {ssp_id'}
  BY <1>1
<1>3. \A i \in Used : i \in Entries /\ i # ssp_id'
  BY <1>1 DEF Used
<1>4. \A i \in Used : processes'[i] = processes[i]
  BY <1>3, AddStep
<1>5. \A i \in Used : processes[i].pid \in Pid \ {p}
  BY DEF Known, Used, TableType
<1>6. TableType'
  BY AddStep
<1>7. EntriesAreDistinct'
  <2>1. \A i, k \in Used' : processes'[i].pid = processes'[k].pid => i = k
    <3>1. \A i \in Used : processes'[i].pid # processes'[ssp_id'].pid
      BY <1>1, <1>4, <1>5
    <3>2. \A i, k \in Used : processes'[i].pid = processes'[k].pid => i = k
      BY <1>4 DEF EntriesAreDistinct
    <3> QED BY <3>1, <3>2, <1>2
  <2> QED BY <1>1, <2>1 DEF EntriesAreDistinct
<1>8. EntryInv'
  <2> SUFFICES ASSUME NEW i \in Used'
               PROVE  /\ child'[processes'[i].pid] # "free"
                      /\ processes'[i].status >= 0 => child'[processes'[i].pid] = "reaped"
    BY DEF EntryInv
  <2>1. CASE i = ssp_id'
    BY <2>1, <1>1
  <2>2. CASE i \in Used
    <3>1. processes'[i] = processes[i] /\ child'[processes[i].pid] = child[processes[i].pid]
      BY <2>2, <1>4, <1>5
    <3> QED BY <2>2, <3>1 DEF EntryInv
  <2> QED BY <2>1, <2>2, <1>2
<1> QED BY <1>4, <1>6, <1>7, <1>8 DEF Kept

--------------------------------------------------------------------------------
(* The table, for every client.                                              *)

LEMMA TableInit == Init => TableInv
<1> SUFFICES ASSUME Init PROVE TableInv
  OBVIOUS
<1>0. InitialSize \in Nat \ {0}
  BY SspAssumption
<1>1. /\ processes_size = InitialSize /\ ssp_id = -1
      /\ processes = [i \in 0 .. InitialSize - 1 |-> Empty]
  BY DEF Init, ssp_init
<1>2. Empty \in [pid : Pid \cup {-1}, status : -1 .. 255] /\ Empty.pid = -1
  BY DEF Empty
<1>3. TableType
  BY <1>0, <1>1, <1>2 DEF TableType, Entries
<1>4. KernelType /\ CallType
  BY <1>0, <1>1 DEF Init, KernelType, CallType
<1>5. Used = {}
  BY <1>1, <1>2 DEF Used, Entries
<1> QED BY <1>1, <1>3, <1>4, <1>5 DEF TableInv, TypeInv, EntriesAreDistinct, EntryInv

\* Steps that leave the table alone, and take no child away.
LEMMA SameTable ==
    ASSUME TableInv, UNCHANGED tableVars,
           \A p \in Pid : /\ child[p] # "free" => child'[p] # "free"
                          /\ child[p] = "reaped" => child'[p] = "reaped"
    PROVE  TableType' /\ EntriesAreDistinct' /\ EntryInv' /\ Kept
<1>1. /\ Used' = Used /\ processes' = processes
      /\ processes_size' = processes_size /\ ssp_id' = ssp_id
  BY DEF tableVars, Used, Entries
<1>2. \A i \in Used : processes[i].pid \in Pid
  BY DEF TableInv, TypeInv, TableType, Used
<1>3. TableType' /\ EntriesAreDistinct'
  BY <1>1 DEF TableInv, TypeInv, TableType, Entries, EntriesAreDistinct
<1> QED BY <1>1, <1>2, <1>3 DEF TableInv, EntryInv, Kept

LEMMA EndsTable ==
    ASSUME TableInv, NEW p \in Pid, Ends(p)
    PROVE  TableInv' /\ Kept
<1> USE DEF TableInv, TypeInv
<1>1. Statuses \cup {Killed} \subseteq 0 .. 255
  BY SspAssumption DEF Killed, SigKill
<1>2. KernelType'
  <2>1. PICK s \in 0 .. 255 : status_of' = [status_of EXCEPT ![p] = s]
    BY <1>1 DEF Ends
  <2>2. status_of' \in [Pid -> 0 .. 255]
    BY <2>1 DEF KernelType
  <2>3. child' \in [Pid -> {"free", "running", "zombie", "reaped"}]
    BY DEF Ends, KernelType
  <2>4. signalled' \subseteq Pid
    BY DEF Ends, KernelType
  <2> QED BY <2>2, <2>3, <2>4 DEF KernelType
<1>3. CallType'
  BY DEF Ends, ProgramUnchanged, CallType, tableVars
<1>4. \A q \in Pid : /\ child[q] # "free" => child'[q] # "free"
                     /\ child[q] = "reaped" => child'[q] = "reaped"
  BY DEF Ends, KernelType
<1>5. UNCHANGED tableVars
  BY DEF Ends, ProgramUnchanged
<1> QED BY <1>2, <1>3, <1>4, <1>5, SameTable

LEMMA AdoptsTable ==
    ASSUME TableInv, NEW p \in Pid, Adopts(p)
    PROVE  TableInv' /\ Kept
<1> USE DEF TableInv, TypeInv
<1>1. KernelType'
  BY DEF Adopts, KernelType
<1>2. CallType'
  BY DEF Adopts, ProgramUnchanged, CallType, tableVars
<1>3. \A q \in Pid : /\ child[q] # "free" => child'[q] # "free"
                     /\ child[q] = "reaped" => child'[q] = "reaped"
  BY DEF Adopts, KernelType
<1>4. UNCHANGED tableVars
  BY DEF Adopts, ProgramUnchanged
<1> QED BY <1>1, <1>2, <1>3, <1>4, SameTable

\* Of steps that write neither the table nor the kernel's variables.
LEMMA IdleTable ==
    ASSUME TableInv, UNCHANGED <<tableVars, kernelVars>>, CallType'
    PROVE  TableInv' /\ Kept
<1>1. KernelType'
  BY DEF TableInv, TypeInv, KernelType, kernelVars
<1>2. \A q \in Pid : /\ child[q] # "free" => child'[q] # "free"
                     /\ child[q] = "reaped" => child'[q] = "reaped"
  BY DEF kernelVars
<1> QED BY <1>1, <1>2, SameTable DEF TableInv, TypeInv

\* Of steps that check one entry.
LEMMA CheckTable ==
    ASSUME TableInv, PidsReturn = FALSE, NEW i \in Used, ssp_check_exit(i),
           processes_size' = processes_size => CallType'
    PROVE  TableInv' /\ Kept
  BY CheckStep, CheckKeepsTable DEF TableInv, TypeInv

\* Of steps that add an entry.
LEMMA AddTable ==
    ASSUME TableInv, NEW p \in Pid, p \notin Known, NEW s \in -1 .. 255,
           ssp_proc_add(p, s), KernelType',
           \A q \in Pid \ {p} : child'[q] = child[q],
           child'[p] # "free", s >= 0 => child'[p] = "reaped",
           client' = client, process' = process,
           call' \in {"none", "wait", "unknown", "print"}, at' = at
    PROVE  TableInv' /\ Kept
<1>1. TableType' /\ EntriesAreDistinct' /\ EntryInv' /\ Kept
  BY AddKeepsTable DEF TableInv, TypeInv
<1>2. processes_size' >= processes_size /\ TableType /\ TableType'
  BY AddStep, <1>1 DEF TableInv, TypeInv
<1>3. processes_size \in Int /\ processes_size' \in Int
  BY <1>2 DEF TableType
<1>4. at' \in 0 .. processes_size'
  BY <1>2, <1>3, RangeGrows DEF TableInv, TypeInv, CallType
<1>5. CallType'
  BY <1>4 DEF TableInv, TypeInv, CallType
<1> QED BY <1>1, <1>5 DEF TableInv, TypeInv

LEMMA CreateTable ==
    ASSUME TableInv, NEW asked \in Streams, ssp_create(asked)
    PROVE  TableInv' /\ Kept
<1>1. ASSUME NEW p \in Pid, child[p] = "free",
             child' = [child EXCEPT ![p] = "running"], ssp_proc_add(p, -1),
             UNCHANGED <<client, call, at, process, status_of, signalled>>
      PROVE  TableInv' /\ Kept
  <2>1. p \notin Known
    BY <1>1 DEF TableInv, EntryInv, Known
  <2>2. KernelType'
    BY <1>1 DEF TableInv, TypeInv, KernelType
  <2>3. /\ \A q \in Pid \ {p} : child'[q] = child[q]
        /\ child'[p] = "running"
    BY <1>1 DEF TableInv, TypeInv, KernelType
  <2>4. call' \in {"none", "wait", "unknown", "print"}
    BY <1>1 DEF TableInv, TypeInv, CallType
  <2>5. -1 \in -1 .. 255 /\ ~(-1 >= 0)
    OBVIOUS
  <2> QED BY <1>1, <2>1, <2>2, <2>3, <2>4, <2>5, AddTable
<1>2. ASSUME error_check("EAGAIN"), UNCHANGED client
      PROVE  TableInv' /\ Kept
  <2>1. CallType'
    BY <1>2 DEF error_check, TableInv, TypeInv, CallType, tableVars
  <2> QED BY <1>2, <2>1, IdleTable DEF error_check
<1> QED BY <1>1, <1>2 DEF ssp_create

LEMMA GetStatusTable ==
    ASSUME TableInv, PidsReturn = FALSE, NEW id \in 0 .. ssp_id, ssp_get_status(id)
    PROVE  TableInv' /\ Kept
<1>1. id \in Used /\ ssp_check_exit(id)
  BY DEF ssp_get_status, TableInv, EntriesAreDistinct
<1>2. processes_size' = processes_size => CallType'
  BY DEF ssp_get_status, TableInv, TypeInv, CallType
<1> QED BY <1>1, <1>2, CheckTable

LEMMA SignalTable ==
    ASSUME TableInv, NEW id \in 0 .. processes_size, ssp_send_signal(id)
    PROVE  TableInv' /\ Kept
<1>1. CASE UNCHANGED <<tableVars, call, at, process, kernelVars>>
  <2>1. CallType'
    BY <1>1 DEF ssp_send_signal, TableInv, TypeInv, CallType, tableVars
  <2> QED BY <1>1, <2>1, IdleTable
<1>2. CASE ssp_id >= 0 /\ kill(processes[ssp_id].pid)
  <2> DEFINE p == processes[ssp_id].pid
  <2>1. CASE child[p] \in {"free", "reaped"}
    <3>1. error_check("ESRCH")
      BY <1>2, <2>1 DEF kill
    <3>2. CallType'
      BY <3>1 DEF error_check, ssp_send_signal, TableInv, TypeInv, CallType, tableVars
    <3> QED BY <3>1, <3>2, IdleTable DEF error_check
  <2>2. CASE child[p] \notin {"free", "reaped"}
    <3>1. /\ signalled' = signalled \cup ({p} \ Zombies)
          /\ UNCHANGED <<tableVars, call, at, process, child, status_of>>
      BY <1>2, <2>2 DEF kill
    <3>2. ssp_id \in Used
      BY <1>2 DEF TableInv, TypeInv, TableType, EntriesAreDistinct
    <3>3. p \in Pid
      BY <3>2 DEF TableInv, TypeInv, TableType, Used
    <3>4. KernelType'
      BY <3>1, <3>3 DEF TableInv, TypeInv, KernelType
    <3>5. CallType'
      BY <3>1 DEF ssp_send_signal, TableInv, TypeInv, CallType, tableVars
    <3> QED BY <3>1, <3>4, <3>5, SameTable DEF TableInv, TypeInv
  <2> QED BY <2>1, <2>2
<1> QED BY <1>1, <1>2 DEF ssp_send_signal

LEMMA WaitTable ==
    ASSUME TableInv, ssp_wait \/ ssp_print
    PROVE  TableInv' /\ Kept
<1>1. UNCHANGED <<client, tableVars, process, kernelVars>>
  BY DEF ssp_wait, ssp_print
<1>2. call' \in {"wait", "unknown"} /\ at' \in {0, at}
  BY DEF ssp_wait, ssp_print
<1>3. processes_size \in Nat /\ processes_size' = processes_size
  BY <1>1 DEF tableVars, TableInv, TypeInv, TableType
<1>4. at' \in 0 .. processes_size'
  BY <1>2, <1>3 DEF TableInv, TypeInv, CallType
<1>5. CallType'
  BY <1>1, <1>2, <1>4 DEF TableInv, TypeInv, CallType
<1> QED BY <1>1, <1>5, IdleTable

\* The loops of ssp_wait and ssp_print, over the entries.
LEMMA LoopTable ==
    ASSUME TableInv, PidsReturn = FALSE, client' = client, process' = process, call' = call,
           at < processes_size, at' = at + 1,
           IF at \in Used THEN ssp_check_exit(at) ELSE UNCHANGED <<tableVars, kernelVars>>
    PROVE  TableInv' /\ Kept
<1>1. processes_size \in Nat /\ at \in Nat /\ at + 1 \in 0 .. processes_size
  BY DEF TableInv, TypeInv, TableType, CallType
<1>2. processes_size' = processes_size => CallType'
  BY <1>1 DEF TableInv, TypeInv, CallType
<1>3. CASE at \in Used
  <2>1. PICK i \in Used : i = at
    BY <1>3
  <2>2. ssp_check_exit(i)
    BY <1>3, <2>1
  <2> QED BY <1>2, <2>2, CheckTable
<1>4. CASE at \notin Used
  BY <1>2, <1>4, IdleTable DEF tableVars
<1> QED BY <1>3, <1>4

LEMMA WaitsForTable ==
    ASSUME TableInv, PidsReturn = FALSE, WaitsFor
    PROVE  TableInv' /\ Kept
  BY LoopTable DEF WaitsFor, Continues

LEMMA WaitIsDoneTable ==
    ASSUME TableInv, WaitIsDone
    PROVE  TableInv' /\ Kept
<1>1. UNCHANGED <<client, tableVars, kernelVars>>
  BY DEF WaitIsDone, Continues, error_check
<1>2. processes_size \in Nat /\ processes_size' = processes_size
  BY <1>1 DEF tableVars, TableInv, TypeInv, TableType
<1>3. /\ call' \in {call, "none"} /\ at' \in {0, at}
      /\ process' \in {"1", process}
  BY DEF WaitIsDone, error_check
<1>4. CallType'
  BY <1>1, <1>2, <1>3 DEF TableInv, TypeInv, CallType
<1> QED BY <1>1, <1>4, IdleTable

LEMMA UnknownTable ==
    ASSUME TableInv, PidsReturn = FALSE, ssp_unknown
    PROVE  TableInv' /\ Kept
<1>1. UNCHANGED <<client, at, process>>
  BY DEF ssp_unknown, Continues
<1>2. ASSUME NEW p \in Zombies, Reap(p), call' = call,
             IF p \in Known THEN UNCHANGED tableVars ELSE ssp_proc_add(p, status_of[p])
      PROVE  TableInv' /\ Kept
  <2>1. p \in Pid /\ child[p] = "zombie"
    BY DEF Zombies
  <2>2. /\ child' = [child EXCEPT ![p] = "reaped"]
        /\ status_of' = status_of /\ signalled' = signalled
    BY <1>2 DEF Reap
  <2>3. KernelType' /\ child'[p] = "reaped" /\ \A q \in Pid \ {p} : child'[q] = child[q]
    BY <2>1, <2>2 DEF TableInv, TypeInv, KernelType
  <2>4. CASE p \in Known
    <3>1. UNCHANGED tableVars
      BY <1>2, <2>4
    <3>2. CallType'
      BY <1>1, <1>2, <3>1 DEF tableVars, TableInv, TypeInv, CallType
    <3>3. \A q \in Pid : /\ child[q] # "free" => child'[q] # "free"
                         /\ child[q] = "reaped" => child'[q] = "reaped"
      BY <2>3
    <3> QED BY <2>3, <3>1, <3>2, <3>3, SameTable DEF TableInv, TypeInv
  <2>5. CASE p \notin Known
    <3>1. PICK s \in -1 .. 255 : s = status_of[p]
      BY <2>1 DEF TableInv, TypeInv, KernelType
    <3>2. ssp_proc_add(p, s)
      BY <1>2, <2>5, <3>1
    <3>3. call' \in {"none", "wait", "unknown", "print"}
      BY <1>2 DEF TableInv, TypeInv, CallType
    <3>4. child'[p] # "free" /\ (s >= 0 => child'[p] = "reaped")
      BY <2>3
    <3> QED BY <1>1, <2>1, <2>3, <2>5, <3>2, <3>3, <3>4, AddTable
  <2> QED BY <2>4, <2>5
<1>3. ASSUME call' = "print", UNCHANGED <<tableVars, kernelVars>>
      PROVE  TableInv' /\ Kept
  <2>1. CallType'
    BY <1>1, <1>3 DEF tableVars, TableInv, TypeInv, CallType
  <2> QED BY <1>3, <2>1, IdleTable
<1> QED BY <1>2, <1>3 DEF ssp_unknown

LEMMA PrintsTable ==
    ASSUME TableInv, PidsReturn = FALSE, Prints
    PROVE  TableInv' /\ Kept
<1>1. CASE at < processes_size
  BY <1>1, LoopTable DEF Prints, Continues
<1>2. CASE ~(at < processes_size)
  <2>1. /\ at' = 0 /\ call' = "none"
        /\ UNCHANGED <<client, process, tableVars, kernelVars>>
    BY <1>2 DEF Prints, Continues
  <2>2. CallType'
    BY <2>1 DEF tableVars, TableInv, TypeInv, TableType, CallType
  <2> QED BY <2>1, <2>2, IdleTable
<1> QED BY <1>1, <1>2

LEMMA TableNext ==
    ASSUME PidsReturn = FALSE
    PROVE  TableInv /\ [Next]_vars => TableInv' /\ [Kept]_vars
<1> SUFFICES ASSUME TableInv, [Next]_vars PROVE TableInv' /\ [Kept]_vars
  OBVIOUS
<1>1. CASE Registry
  BY <1>1, WaitsForTable, WaitIsDoneTable, UnknownTable, PrintsTable DEF Registry
<1>2. CASE Client
  BY <1>2, CreateTable, GetStatusTable, SignalTable, WaitTable DEF Client
<1>3. CASE \E p \in Pid : Ends(p) \/ Adopts(p)
  BY <1>3, EndsTable, AdoptsTable
<1>4. CASE UNCHANGED vars
  <2>1. UNCHANGED <<client, tableVars, call, at, process, kernelVars>>
    BY <1>4 DEF vars
  <2>2. CallType'
    BY <2>1 DEF tableVars, TableInv, TypeInv, CallType
  <2>3. TableInv' /\ Kept
    BY <2>1, <2>2, IdleTable
  <2> QED BY <2>3
<1> QED BY <1>1, <1>2, <1>3, <1>4 DEF Next

LEMMA TableInvariant ==
    ASSUME PidsReturn = FALSE
    PROVE  Spec => []TableInv
<1>1. TableInv /\ [Next]_vars => TableInv'
  BY TableNext
<1> QED BY <1>1, TableInit, PTL DEF Spec

\* As long as the kernel gives no pid twice, the table is filled in order and has
\* one entry for a process, when it doubles and when ssp_unknown adds to it too.
THEOREM Distinct ==
    ASSUME PidsReturn = FALSE
    PROVE  Spec => []EntriesAreDistinct
<1>1. TableInv => EntriesAreDistinct
  BY DEF TableInv
<1> QED BY <1>1, TableInvariant, PTL

\* An id that was handed out keeps its process when ssp_expand moves the table, and
\* a recorded status is never written again.
THEOREM Keeping ==
    ASSUME PidsReturn = FALSE
    PROVE  Spec => EntriesAreKept
<1>1. TableInv /\ [Next]_vars => [Kept]_vars
  BY TableNext
<1>2. Kept <=> \A i \in Used :
                  /\ processes'[i].pid = processes[i].pid
                  /\ processes[i].status >= 0 => processes'[i] = processes[i]
  BY DEF Kept
<1>3. TableInv /\ [Next]_vars =>
          [\A i \in Used :
              /\ processes'[i].pid = processes[i].pid
              /\ processes[i].status >= 0 => processes'[i] = processes[i]]_vars
  BY <1>1, <1>2
<1> QED BY <1>3, TableInvariant, PTL DEF Spec, EntriesAreKept

--------------------------------------------------------------------------------
(* The statuses, for clients that print when none of their children is ending. *)

LEMMA SameStatuses ==
    ASSUME TableInv, StatusesAreTrue, UNCHANGED tableVars,
           \A p \in Pid : /\ child[p] = "reaped" <=> child'[p] = "reaped"
                          /\ child[p] = "reaped" => status_of'[p] = status_of[p]
                          /\ child[p] \in {"running", "zombie"} =>
                                 child'[p] \in {"running", "zombie"}
    PROVE  StatusesAreTrue'
<1>1. Used' = Used /\ Known' = Known /\ processes' = processes
  BY DEF tableVars, Used, Known, Entries
<1>2. \A i \in Used : processes[i].pid \in Pid
  BY DEF TableInv, TypeInv, TableType, Used
<1> QED BY <1>1, <1>2 DEF StatusesAreTrue

LEMMA CheckStatuses ==
    ASSUME TableInv, StatusesAreTrue, PidsReturn = FALSE, NEW i \in Used, ssp_check_exit(i)
    PROVE  /\ StatusesAreTrue'
           /\ child[processes[i].pid] # "running" => processes'[i].status >= 0
<1> DEFINE p == processes[i].pid
<1>1. /\ Used' = Used /\ Known' = Known /\ status_of' = status_of /\ p \in Pid
      /\ \A k \in Used : processes'[k].pid = processes[k].pid
      /\ \A k \in Used : k # i => processes'[k] = processes[k]
      /\ IF child[p] = "zombie"
         THEN processes'[i].status = status_of[p] /\ child' = [child EXCEPT ![p] = "reaped"]
         ELSE processes' = processes /\ child' = child
  BY CheckStep DEF TableInv, TypeInv, Used
<1>2. status_of[p] \in 0 .. 255
  BY <1>1 DEF TableInv, TypeInv, KernelType
<1>3. CASE child[p] = "zombie"
  <2>1. /\ child'[p] = "reaped"
        /\ \A q \in Pid : q # p => child'[q] = child[q]
    BY <1>1, <1>3 DEF TableInv, TypeInv, KernelType
  <2>2. p \in Known
    BY DEF Known
  <2>3. \A q \in Pid : child'[q] = "reaped" => q \in Known'
    BY <1>1, <2>1, <2>2 DEF StatusesAreTrue
  <2>4. \A k \in Used : k # i => processes[k].pid \in Pid /\ processes[k].pid # p
    BY DEF TableInv, TypeInv, TableType, EntriesAreDistinct, Used
  <2>5. ASSUME NEW k \in Used
        PROVE  IF child'[processes'[k].pid] = "reaped"
               THEN processes'[k].status = status_of'[processes'[k].pid]
               ELSE /\ child'[processes'[k].pid] \in {"running", "zombie"}
                    /\ processes'[k].status = -1
    <3>1. CASE k = i
      BY <3>1, <1>1, <1>3, <2>1
    <3>2. CASE k # i
      <4>1. processes'[k] = processes[k] /\ child'[processes[k].pid] = child[processes[k].pid]
        BY <3>2, <1>1, <2>1, <2>4
      <4> QED BY <4>1, <1>1 DEF StatusesAreTrue
    <3> QED BY <3>1, <3>2
  <2>6. StatusesAreTrue'
    BY <2>3, <2>5, <1>1 DEF StatusesAreTrue
  <2> QED BY <2>6, <1>1, <1>2, <1>3
<1>4. CASE child[p] # "zombie"
  <2>1. StatusesAreTrue'
    BY <1>1, <1>4 DEF StatusesAreTrue
  <2>2. child[p] # "running" => processes[i].status = status_of[p]
    BY <1>4 DEF StatusesAreTrue
  <2> QED BY <2>1, <2>2, <1>1, <1>2, <1>4
<1> QED BY <1>3, <1>4

LEMMA AddStatuses ==
    ASSUME TableInv, StatusesAreTrue,
           NEW p \in Pid, p \notin Known, NEW s \in -1 .. 255, ssp_proc_add(p, s),
           \A q \in Pid \ {p} : child'[q] = child[q], status_of' = status_of,
           \/ child'[p] = "running" /\ s = -1
           \/ child'[p] = "reaped" /\ s = status_of[p]
    PROVE  StatusesAreTrue'
<1>1. /\ Used = 0 .. ssp_id /\ Used' = 0 .. ssp_id' /\ Known' = Known \cup {p}
      /\ ssp_id \in Int /\ -1 <= ssp_id /\ ssp_id' = ssp_id + 1
      /\ processes'[ssp_id'] = [pid |-> p, status |-> s]
      /\ \A i \in Entries : i # ssp_id' => processes'[i] = processes[i]
  BY AddStep DEF TableInv, TypeInv
<1>2. Used' = Used \cup {ssp_id'}
  BY <1>1
<1>3. \A i \in Used : i \in Entries /\ i # ssp_id'
  BY <1>1 DEF Used
<1>4. \A i \in Used : processes'[i] = processes[i]
  BY <1>1, <1>3
<1>5. \A i \in Used : processes[i].pid \in Pid \ {p}
  BY DEF Known, Used, TableInv, TypeInv, TableType
<1>6. \A q \in Pid : child'[q] = "reaped" => q \in Known'
  BY <1>1 DEF StatusesAreTrue
<1>7. ASSUME NEW i \in Used'
      PROVE  IF child'[processes'[i].pid] = "reaped"
             THEN processes'[i].status = status_of'[processes'[i].pid]
             ELSE /\ child'[processes'[i].pid] \in {"running", "zombie"}
                  /\ processes'[i].status = -1
  <2>1. CASE i = ssp_id'
    <3>1. processes'[i].pid = p /\ processes'[i].status = s
      BY <2>1, <1>1
    <3> QED BY <3>1
  <2>2. CASE i \in Used
    <3>1. processes'[i] = processes[i] /\ child'[processes[i].pid] = child[processes[i].pid]
      BY <2>2, <1>4, <1>5
    <3> QED BY <2>2, <3>1 DEF StatusesAreTrue
  <2> QED BY <2>1, <2>2, <1>2
<1> QED BY <1>6, <1>7 DEF StatusesAreTrue

\* Of steps outside the loops of ssp_unknown and ssp_wait.
LEMMA OutsideLoops ==
    ASSUME StatusesAreTrue', call' \notin {"unknown", "wait"}
    PROVE  StatusInv'
  BY DEF StatusInv, PrintInv, WaitInv

LEMMA StatusInit == Init => StatusInv
<1> SUFFICES ASSUME Init PROVE StatusInv
  OBVIOUS
<1>1. Used = {}
  BY DEF Init, ssp_init, Used, Entries, Empty
<1>2. call = "none" /\ \A p \in Pid : child[p] # "reaped"
  BY DEF Init
<1> QED BY <1>1, <1>2 DEF StatusInv, StatusesAreTrue, PrintInv, WaitInv

LEMMA EndsStatus ==
    ASSUME TableInv, StatusInv, Patient, NEW p \in Pid, Ends(p)
    PROVE  StatusInv'
<1>1. /\ child[p] = "running" /\ child' = [child EXCEPT ![p] = "zombie"]
      /\ call = "unknown" => p \notin Known
      /\ UNCHANGED <<tableVars, call, at>>
  BY DEF Ends, ProgramUnchanged, Patient
<1>2. PICK s : status_of' = [status_of EXCEPT ![p] = s]
  BY DEF Ends
<1>3. \A q \in Pid : q # p => child'[q] = child[q] /\ status_of'[q] = status_of[q]
  BY <1>1, <1>2 DEF TableInv, TypeInv, KernelType
<1>4. child'[p] = "zombie"
  BY <1>1 DEF TableInv, TypeInv, KernelType
<1>5. StatusesAreTrue'
  BY <1>1, <1>3, <1>4, SameStatuses DEF StatusInv
<1>6. Used' = Used /\ Known' = Known /\ processes' = processes
  BY <1>1 DEF tableVars, Used, Known, Entries
<1>7. PrintInv'
  BY <1>1, <1>3, <1>6 DEF StatusInv, PrintInv, Zombies
<1>8. WaitInv'
  BY <1>1, <1>6 DEF StatusInv, WaitInv
<1> QED BY <1>5, <1>7, <1>8 DEF StatusInv

LEMMA AdoptsStatus ==
    ASSUME TableInv, StatusInv, NEW p \in Pid, Adopts(p)
    PROVE  StatusInv'
<1>1. /\ child[p] = "free" /\ child' = [child EXCEPT ![p] = "running"]
      /\ UNCHANGED <<tableVars, call, at, status_of>>
  BY DEF Adopts, ProgramUnchanged
<1>2. \A q \in Pid : q # p => child'[q] = child[q]
  BY <1>1 DEF TableInv, TypeInv, KernelType
<1>3. child'[p] = "running"
  BY <1>1 DEF TableInv, TypeInv, KernelType
<1>4. StatusesAreTrue'
  BY <1>1, <1>2, <1>3, SameStatuses DEF StatusInv
<1>5. Used' = Used /\ Known' = Known /\ processes' = processes
  BY <1>1 DEF tableVars, Used, Known, Entries
<1>6. Zombies' = Zombies
  BY <1>1, <1>2, <1>3 DEF Zombies
<1> QED BY <1>1, <1>4, <1>5, <1>6 DEF StatusInv, PrintInv, WaitInv

\* Of steps that write neither the table nor the kernel's variables.
LEMMA IdleStatuses ==
    ASSUME TableInv, StatusInv, UNCHANGED <<tableVars, kernelVars>>
    PROVE  StatusesAreTrue'
  BY SameStatuses DEF StatusInv, kernelVars

LEMMA CreateStatus ==
    ASSUME TableInv, StatusInv, NEW asked \in Streams, ssp_create(asked)
    PROVE  StatusInv'
<1>0. call = "none" /\ call' = call
  BY DEF ssp_create, error_check
<1>1. ASSUME NEW p \in Pid, child[p] = "free",
             child' = [child EXCEPT ![p] = "running"], ssp_proc_add(p, -1),
             status_of' = status_of
      PROVE  StatusesAreTrue'
  <2>1. p \notin Known
    BY <1>1 DEF TableInv, EntryInv, Known
  <2>2. /\ \A q \in Pid \ {p} : child'[q] = child[q]
        /\ child'[p] = "running"
    BY <1>1 DEF TableInv, TypeInv, KernelType
  <2>3. -1 \in -1 .. 255
    OBVIOUS
  <2> QED BY <1>1, <2>1, <2>2, <2>3, AddStatuses DEF StatusInv
<1>2. ASSUME error_check("EAGAIN")
      PROVE  StatusesAreTrue'
  BY <1>2, IdleStatuses DEF error_check
<1> QED BY <1>0, <1>1, <1>2, OutsideLoops DEF ssp_create

LEMMA GetStatusStatus ==
    ASSUME TableInv, StatusInv, PidsReturn = FALSE, NEW id \in 0 .. ssp_id, ssp_get_status(id)
    PROVE  StatusInv'
<1>1. id \in Used /\ ssp_check_exit(id)
  BY DEF ssp_get_status, TableInv, EntriesAreDistinct
<1>2. call' = "none"
  BY DEF ssp_get_status, Calls
<1> QED BY <1>1, <1>2, CheckStatuses, OutsideLoops DEF StatusInv

LEMMA SignalStatus ==
    ASSUME TableInv, StatusInv, NEW id \in 0 .. processes_size, ssp_send_signal(id)
    PROVE  StatusInv'
<1>1. UNCHANGED <<tableVars, call, child, status_of>>
  BY DEF ssp_send_signal, kill, error_check, kernelVars
<1>2. StatusesAreTrue'
  BY <1>1, SameStatuses DEF StatusInv
<1>3. call' = "none"
  BY <1>1 DEF ssp_send_signal, Calls
<1> QED BY <1>2, <1>3, OutsideLoops

LEMMA WaitStatus ==
    ASSUME TableInv, StatusInv, ssp_wait
    PROVE  StatusInv'
<1>1. call' = "wait" /\ at' = 0 /\ UNCHANGED <<tableVars, kernelVars>>
  BY DEF ssp_wait
<1>2. StatusesAreTrue'
  BY <1>1, IdleStatuses
<1>3. \A i \in Used' : ~(i < 0)
  BY DEF Used, Entries
<1> QED BY <1>1, <1>2, <1>3 DEF StatusInv, PrintInv, WaitInv

LEMMA PrintStatus ==
    ASSUME TableInv, StatusInv, Patient, ssp_print
    PROVE  StatusInv'
<1>1. /\ call' = "unknown" /\ UNCHANGED <<tableVars, kernelVars>>
      /\ Known \cap Zombies = {}
  BY DEF ssp_print, Patient
<1>2. StatusesAreTrue'
  BY <1>1, IdleStatuses
<1>3. Known' = Known /\ Zombies' = Zombies
  BY <1>1 DEF tableVars, kernelVars, Known, Used, Entries, Zombies
<1> QED BY <1>1, <1>2, <1>3 DEF StatusInv, PrintInv, WaitInv

LEMMA WaitsForStatus ==
    ASSUME TableInv, StatusInv, PidsReturn = FALSE, WaitsFor
    PROVE  StatusInv'
<1>1. call = "wait" /\ call' = "wait" /\ at' = at + 1 /\ at \in Nat
  BY DEF WaitsFor, Continues, TableInv, TypeInv, CallType
<1>2. CASE at \in Used
  <2>1. PICK i \in Used : i = at
    BY <1>2
  <2>2. ssp_check_exit(i) /\ child[processes[i].pid] # "running"
    BY <1>2, <2>1 DEF WaitsFor
  <2>3. StatusesAreTrue' /\ processes'[i].status >= 0
    BY <2>2, CheckStatuses DEF StatusInv
  <2>4. Used' = Used /\ \A k \in Used : k # i => processes'[k] = processes[k]
    BY <2>2, CheckStep DEF TableInv, TypeInv, Used
  <2>5. \A k \in Used : k < at' => k < at \/ k = i
    BY <1>1, <2>1 DEF Used, Entries
  <2>6. WaitInv'
    BY <1>1, <2>3, <2>4, <2>5 DEF StatusInv, WaitInv
  <2> QED BY <1>1, <2>3, <2>6 DEF StatusInv, PrintInv
<1>3. CASE at \notin Used
  <2>1. UNCHANGED <<tableVars, kernelVars>>
    BY <1>3 DEF WaitsFor
  <2>2. StatusesAreTrue'
    BY <2>1, IdleStatuses
  <2>3. Used' = Used /\ processes' = processes
    BY <2>1 DEF tableVars, Used, Entries
  <2>4. \A k \in Used : k < at' => k < at
    BY <1>1, <1>3 DEF Used, Entries
  <2>5. WaitInv'
    BY <1>1, <2>3, <2>4 DEF StatusInv, WaitInv
  <2> QED BY <1>1, <2>2, <2>5 DEF StatusInv, PrintInv
<1> QED BY <1>2, <1>3

\* ssp_wait finds every status valid.
LEMMA WaitIsValid ==
    ASSUME TableInv, StatusInv, WaitIsDone
    PROVE  ~Invalid
<1>1. call = "wait" /\ at = processes_size
  BY DEF WaitIsDone, Continues
<1>2. ASSUME NEW i \in Used
      PROVE  processes[i].status \in 0 .. 255
  <2>1. i < at
    BY <1>1 DEF Used, Entries, TableInv, TypeInv, TableType
  <2>2. processes[i].status \in -1 .. 255
    BY DEF Used, TableInv, TypeInv, TableType
  <2>3. processes[i].status >= 0
    BY <1>1, <2>1 DEF StatusInv, WaitInv
  <2> QED BY <2>2, <2>3
<1> QED BY <1>2 DEF Invalid

LEMMA WaitIsDoneStatus ==
    ASSUME TableInv, StatusInv, WaitIsDone
    PROVE  StatusInv'
<1>1. call' = "none" /\ UNCHANGED <<tableVars, kernelVars>>
  BY WaitIsValid DEF WaitIsDone
<1> QED BY <1>1, IdleStatuses, OutsideLoops

LEMMA UnknownStatus ==
    ASSUME TableInv, StatusInv, PidsReturn = FALSE, ssp_unknown
    PROVE  StatusInv'
<1>0. call = "unknown" /\ Known \cap Zombies = {}
  BY DEF ssp_unknown, Continues, StatusInv, PrintInv
<1>1. ASSUME NEW p \in Zombies, Reap(p), call' = call,
             IF p \in Known THEN UNCHANGED tableVars ELSE ssp_proc_add(p, status_of[p])
      PROVE  StatusInv'
  <2>1. p \in Pid /\ child[p] = "zombie" /\ p \notin Known
    BY <1>0 DEF Zombies
  <2>2. child' = [child EXCEPT ![p] = "reaped"] /\ status_of' = status_of
    BY <1>1 DEF Reap
  <2>3. child'[p] = "reaped" /\ \A q \in Pid \ {p} : child'[q] = child[q]
    BY <2>1, <2>2 DEF TableInv, TypeInv, KernelType
  <2>4. PICK s \in -1 .. 255 : s = status_of[p]
    BY <2>1 DEF TableInv, TypeInv, KernelType
  <2>5. ssp_proc_add(p, s)
    BY <1>1, <2>1, <2>4
  <2>6. StatusesAreTrue'
    BY <2>1, <2>2, <2>3, <2>4, <2>5, AddStatuses DEF StatusInv
  <2>7. Known' = Known \cup {p}
    BY <2>1, <2>5, AddStep DEF TableInv, TypeInv
  <2>8. Zombies' = Zombies \ {p}
    BY <2>3 DEF Zombies
  <2>9. PrintInv'
    BY <1>0, <2>7, <2>8 DEF PrintInv
  <2> QED BY <1>0, <1>1, <2>6, <2>9 DEF StatusInv, WaitInv
<1>2. ASSUME call' = "print", UNCHANGED <<tableVars, kernelVars>>
      PROVE  StatusInv'
  BY <1>2, IdleStatuses, OutsideLoops
<1> QED BY <1>1, <1>2 DEF ssp_unknown

LEMMA PrintsStatus ==
    ASSUME TableInv, StatusInv, PidsReturn = FALSE, Prints
    PROVE  StatusInv'
<1>1. call' \in {"print", "none"}
  BY DEF Prints, Continues
<1>2. CASE at < processes_size /\ at \in Used
  <2>1. PICK i \in Used : i = at
    BY <1>2
  <2>2. ssp_check_exit(i)
    BY <1>2, <2>1 DEF Prints
  <2> QED BY <1>1, <2>2, CheckStatuses, OutsideLoops DEF StatusInv
<1>3. CASE ~(at < processes_size /\ at \in Used)
  <2>1. UNCHANGED <<tableVars, kernelVars>>
    BY <1>3 DEF Prints
  <2> QED BY <1>1, <2>1, IdleStatuses, OutsideLoops
<1> QED BY <1>2, <1>3

LEMMA SameClient == [Next]_vars => client' = client
  BY DEF Next, Registry, Client, WaitsFor, WaitIsDone, ssp_unknown, Prints, ssp_create,
         ssp_get_status, ssp_send_signal, ssp_wait, ssp_print, Ends, Adopts, Continues,
         ProgramUnchanged, vars

LEMMA StatusNext ==
    ASSUME PidsReturn = FALSE
    PROVE  TableInv /\ (Patient => StatusInv) /\ [Next]_vars => (Patient => StatusInv)'
<1> SUFFICES ASSUME TableInv, Patient, StatusInv, [Next]_vars PROVE StatusInv'
  BY SameClient DEF Patient
<1>1. CASE Registry
  BY <1>1, WaitsForStatus, WaitIsDoneStatus, UnknownStatus, PrintsStatus DEF Registry
<1>2. CASE Client
  BY <1>2, CreateStatus, GetStatusStatus, SignalStatus, WaitStatus, PrintStatus DEF Client
<1>3. CASE \E p \in Pid : Ends(p) \/ Adopts(p)
  BY <1>3, EndsStatus, AdoptsStatus
<1>4. CASE UNCHANGED vars
  BY <1>4 DEF vars, tableVars, kernelVars, StatusInv, StatusesAreTrue, PrintInv, WaitInv,
              Used, Entries, Known, Zombies
<1> QED BY <1>1, <1>2, <1>3, <1>4 DEF Next

LEMMA StatusInvariant ==
    ASSUME PidsReturn = FALSE
    PROVE  Spec => [](TableInv /\ (Patient => StatusInv))
<1>1. TableInv /\ [Next]_vars => TableInv'
  BY TableNext
<1>2. Init => (Patient => StatusInv)
  BY StatusInit
<1> QED BY <1>1, <1>2, TableInit, StatusNext, PTL DEF Spec

\* As long as no pid is given twice, and of clients that print when none of their
\* children is ending, the table has of every child that was reaped, by ssp_wait,
\* ssp_get_status, ssp_print or as an unknown one, the status it ended with.
THEOREM TrueStatuses ==
    ASSUME PidsReturn = FALSE, \A c \in Clients : "prints early" \notin c
    PROVE  Spec => []StatusesAreTrue
<1>1. TableInv /\ (Patient => StatusInv) => StatusesAreTrue
  BY DEF TableInv, TypeInv, CallType, Patient, StatusInv
<1> QED BY <1>1, StatusInvariant, PTL

LEMMA StopNext ==
    TableInv /\ (Patient => StatusInv) /\ StopInv /\ [Next]_vars => StopInv'
<1> SUFFICES ASSUME TableInv, Plain, StatusInv, OnlyForkFails, [Next]_vars
             PROVE  OnlyForkFails'
  BY SameClient DEF StopInv, Plain, Patient
<1>1. CASE process' = process
  BY <1>1 DEF OnlyForkFails
<1>2. CASE WaitIsDone
  BY <1>1, <1>2, WaitIsValid DEF WaitIsDone
<1>3. ASSUME NEW id \in 0 .. processes_size, ssp_send_signal(id)
      PROVE  process' = process
  <2>1. id = ssp_id /\ processes[id].status = -1
    BY <1>3 DEF ssp_send_signal, Plain
  <2>2. CASE ssp_id >= 0 /\ kill(processes[ssp_id].pid)
    <3>1. ssp_id \in Used
      BY <2>2 DEF TableInv, TypeInv, TableType, EntriesAreDistinct
    <3>2. child[processes[ssp_id].pid] \notin {"free", "reaped"}
      <4>1. processes[ssp_id].pid \in Pid
        BY <3>1 DEF TableInv, TypeInv, TableType, Used
      <4>2. status_of[processes[ssp_id].pid] # -1
        BY <4>1 DEF TableInv, TypeInv, KernelType
      <4> QED BY <2>1, <3>1, <4>2 DEF StatusInv, StatusesAreTrue
    <3> QED BY <2>2, <3>2 DEF kill
  <2>3. CASE UNCHANGED <<tableVars, call, at, process, kernelVars>>
    BY <2>3
  <2> QED BY <1>3, <2>2, <2>3 DEF ssp_send_signal
<1>4. ASSUME NEW asked \in Streams, ssp_create(asked)
      PROVE  process' \in {process, "EAGAIN"}
  BY <1>4 DEF ssp_create, error_check
<1> QED
  BY <1>1, <1>2, <1>3, <1>4 DEF Next, Registry, Client, WaitsFor, ssp_unknown, Prints,
     ssp_get_status, ssp_wait, ssp_print, Ends, Adopts, ProgramUnchanged, vars,
     OnlyForkFails

\* A client that also signals only the last process, while it has not seen it end,
\* is stopped by a fork that fails and by nothing else: ssp_wait finds no status
\* invalid, and kill names no process that is gone.
THEOREM Stops ==
    ASSUME PidsReturn = FALSE,
           \A c \in Clients : "prints early" \notin c /\ "signals any" \notin c
    PROVE  Spec => []OnlyForkFails
<1>1. Init => StopInv
  BY DEF Init, StopInv, OnlyForkFails
<1>2. TableInv /\ StopInv => OnlyForkFails
  BY DEF TableInv, TypeInv, CallType, Plain, Patient, StopInv
<1> QED BY <1>1, <1>2, StatusInvariant, StopNext, PTL DEF Spec

--------------------------------------------------------------------------------
(* The streams, for every client.                                            *)

\* What the child's 0, 1 and 2 are after the three calls of dup2, in this order.
LEMMA SetFds ==
    ASSUME NEW asked \in Streams
    PROVE  LET files == close_fds(set_fds(asked))
           IN  /\ files[0] = asked[1]
               /\ files[1] = IF asked[2] = 0 THEN asked[1] ELSE asked[2]
               /\ files[2] = IF asked[3] = 0 \/ (asked[3] = 1 /\ asked[2] = 0) THEN asked[1]
                             ELSE IF asked[3] = 1 THEN asked[2] ELSE asked[3]
<1> DEFINE f0 == [fd \in Fds |-> fd]
           f1 == [f0 EXCEPT ![0] = f0[asked[1]]]
           f2 == [f1 EXCEPT ![1] = f1[asked[2]]]
           f3 == [f2 EXCEPT ![2] = f2[asked[3]]]
<1>1. /\ asked[1] \in Fds /\ asked[2] \in Fds /\ asked[3] \in Fds
      /\ 0 \in Fds /\ 1 \in Fds /\ 2 \in Fds
  <2>1. asked \in Fds \X Fds \X Fds
    BY SspAssumption
  <2>2. 0 \in 0 .. 2 /\ 1 \in 0 .. 2 /\ 2 \in 0 .. 2
    OBVIOUS
  <2>3. 0 .. 2 \subseteq Fds
    BY SspAssumption
  <2> QED BY <2>1, <2>2, <2>3
<1>2. close_fds(set_fds(asked)) = [fd \in 0 .. 2 |-> f3[fd]]
  BY DEF close_fds, set_fds
<1>3. f1 = [fd \in Fds |-> IF fd = 0 THEN asked[1] ELSE fd]
  BY <1>1
<1>4. f2 = [fd \in Fds |-> IF fd = 1 THEN f1[asked[2]] ELSE f1[fd]]
  <2>1. DOMAIN f1 = Fds
    BY <1>3
  <2> HIDE DEF f1
  <2> QED BY <2>1 DEF f2
<1>5. f3 = [fd \in Fds |-> IF fd = 2 THEN f2[asked[3]] ELSE f2[fd]]
  <2>1. DOMAIN f2 = Fds
    BY <1>4
  <2> HIDE DEF f2
  <2> QED BY <2>1 DEF f3
<1> HIDE DEF f1, f2, f3
<1>6. f1[0] = asked[1] /\ f1[1] = 1 /\ \A fd \in Fds : fd # 0 => f1[fd] = fd
  BY <1>1, <1>3
<1>7. /\ f2[0] = asked[1] /\ f2[1] = f1[asked[2]]
      /\ \A fd \in Fds : fd # 0 /\ fd # 1 => f2[fd] = fd
  BY <1>1, <1>4, <1>6
<1>8. f3[0] = f2[0] /\ f3[1] = f2[1] /\ f3[2] = f2[asked[3]]
  BY <1>1, <1>5
<1> QED BY <1>1, <1>2, <1>6, <1>7, <1>8

StreamsInv == streams # <<>> => \E asked \in Streams : streams = <<asked, close_fds(set_fds(asked))>>

LEMMA StreamsNext == StreamsInv /\ [Next]_vars => StreamsInv'
<1> SUFFICES ASSUME StreamsInv, [Next]_vars, streams' # <<>>, streams' # streams
             PROVE  \E asked \in Streams : streams' = <<asked, close_fds(set_fds(asked))>>
  BY DEF StreamsInv
<1>1. \E asked \in Streams : ssp_create(asked)
  BY DEF Next, Registry, Client, WaitsFor, WaitIsDone, ssp_unknown, Prints, ssp_get_status,
         ssp_send_signal, ssp_wait, ssp_print, Ends, Adopts, Calls, Continues, vars
<1> QED BY <1>1 DEF ssp_create

\* The child that ssp_create forks has the three descriptors that were asked for,
\* unless one of the dup2 calls overwrites one that a later call copies.
THEOREM StreamsAsked == Spec => []StreamsAreAsAsked
<1>1. Init => StreamsInv
  BY DEF Init, StreamsInv
<1>2. StreamsInv => StreamsAreAsAsked
  <2> SUFFICES ASSUME NEW asked \in Streams, streams = <<asked, close_fds(set_fds(asked))>>
               PROVE  (\A fd \in 0 .. 2 : streams[2][fd] = streams[1][fd + 1])
                          <=> ~Overwritten(streams[1])
    BY DEF StreamsInv, StreamsAreAsAsked
  <2> DEFINE files == close_fds(set_fds(asked))
  <2>1. streams[1] = asked /\ streams[2] = files
    OBVIOUS
  <2>2. (\A fd \in 0 .. 2 : files[fd] = asked[fd + 1])
            <=> files[0] = asked[1] /\ files[1] = asked[2] /\ files[2] = asked[3]
    <3> HIDE DEF files
    <3> QED OBVIOUS
  <2>3. /\ files[0] = asked[1]
        /\ files[1] = IF asked[2] = 0 THEN asked[1] ELSE asked[2]
        /\ files[2] = IF asked[3] = 0 \/ (asked[3] = 1 /\ asked[2] = 0) THEN asked[1]
                      ELSE IF asked[3] = 1 THEN asked[2] ELSE asked[3]
    BY SetFds
  <2> HIDE DEF files
  <2> QED BY <2>1, <2>2, <2>3 DEF Overwritten
<1> QED BY <1>1, <1>2, StreamsNext, PTL DEF Spec
================================================================================
