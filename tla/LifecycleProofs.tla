--------------------------- MODULE LifecycleProofs ---------------------------
(* One terminal, any number of processes, downloads and kills: while the     *)
(* deadlines of `serve` and `stop` are kept, one process at a time owns      *)
(* queue.json, the files name it, and nothing that was accepted is lost.     *)
EXTENDS Lifecycle, TLAPS

Leaving == {"closed"} \cup Clearing
Alive == In(Stages \ {"none", "gone"})
NamedBy(p) == [port |-> p, token |-> p, pid |-> p]

(* Two processes live at one time only when the older one has served its     *)
(* last request and the newer one has not read queue.json.                   *)
OneAlive ==
  \A p, q \in Alive :
    \/ p = q
    \/ St(p) = "new" /\ St(q) \in Leaving
    \/ St(q) = "new" /\ St(p) \in Leaving

(* What the files say at each stage of a process.                            *)
FilesKnown ==
  \A p \in Pids :
    /\ St(p) \in {"new", "loaded"} => file = NoFiles
    /\ St(p) = "port" => file = [NoFiles EXCEPT !.port = p]
    /\ St(p) = "token" => file = [NamedBy(p) EXCEPT !.pid = 0]
    /\ St(p) \in Answering => file = NamedBy(p)
    /\ St(p) = "closed" => file \in {NamedBy(p), NoFiles}

QueueSaved ==
  /\ \A p \in In(Holding) : proc[p].mem = disk
  /\ AcceptedKept

(* What a terminal may rely on: no process is on its way up between two of   *)
(* its commands, the endpoint it has read is that of the process that lives, *)
(* and while it waits for a stop none is up or on its way.                   *)
CommandKnows ==
  \A c \in Clients :
    /\ cl[c].pc \in {"idle", "read"} => In({"new", "loaded", "port"}) = {}
    /\ cl[c].pc = "read" =>
         /\ \A p \in In({"token"} \cup Answering) : cl[c].ep.port = p /\ cl[c].ep.token = p
         /\ Named(cl[c].ep) => \A p \in In({"closed"}) : file.port = p
    /\ cl[c].pc = "wait" /\ cl[c].op = "stop" =>
         In(Starting \cup {"up"}) = {} /\ \A p \in In({"closed"}) : file.port = p
    /\ said[c] = "stopped" => cl[c].pc = "idle" /\ Owners = {}

Inv == TypeOK /\ OneAlive /\ FilesKnown /\ QueueSaved /\ CommandKnows

-----------------------------------------------------------------------------

LEMMA InvInit == Init => Inv
<1> SUFFICES ASSUME Init PROVE Inv
  OBVIOUS
<1>1. \A p \in Pids : St(p) = "none"
  BY DEF Init, St
<1>2. TypeOK
  BY LifecycleAssumption DEF Init, TypeOK, Stages, Files, NoFiles, idle
<1>3. OneAlive /\ FilesKnown /\ QueueSaved
  BY <1>1 DEF Init, OneAlive, FilesKnown, QueueSaved, AcceptedKept, Alive, In, Holding, Starting, Answering
<1>4. CommandKnows
  BY <1>1 DEF Init, CommandKnows, idle, In
<1> QED BY <1>2, <1>3, <1>4 DEF Inv

(* What a step of process p that touches no command must show.               *)
LEMMA ProcessKeeps ==
  ASSUME TypeOK, NEW p \in Pids, NEW st \in Stages, NEW mem \in SUBSET Ids,
         proc' = [proc EXCEPT ![p].st = st, ![p].mem = mem]
  PROVE  /\ proc' \in [Pids -> [st : Stages, mode : {"serve", "catch"}, mem : SUBSET Ids]]
         /\ St(p)' = st /\ proc'[p].mem = mem
         /\ \A q \in Pids \ {p} : St(q)' = St(q) /\ proc'[q] = proc[q]
BY DEF TypeOK, St

LEMMA MoveKeeps ==
  ASSUME TypeOK, NEW p \in Pids, NEW st \in Stages, Move(p, st)
  PROVE  /\ proc' \in [Pids -> [st : Stages, mode : {"serve", "catch"}, mem : SUBSET Ids]]
         /\ St(p)' = st /\ proc'[p].mem = proc[p].mem
         /\ \A q \in Pids \ {p} : St(q)' = St(q) /\ proc'[q] = proc[q]
BY DEF TypeOK, St, Move

(* Each deadline is kept: Faults says only "kill".                           *)
OnTime == Faults \subseteq {"kill"}

(* A process leaves when another one boots, and is then the only one.        *)
LEMMA BootKeeps ==
  ASSUME Inv, OnTime, NEW p \in Pids, Boot(p)
  PROVE  Inv'
<1> DEFINE taken == proc[p].mode = "catch" /\ \E q \in In(Holding) : proc[q].mode = "catch"
           st == IF taken THEN "gone" ELSE "loaded"
<1>1. /\ St(p) = "new" /\ In(Leaving) = {} /\ file = NoFiles
      /\ UNCHANGED <<file, disk, accepted, cl, said, commands>>
  BY DEF Boot, OnTime, Leaving, Inv, FilesKnown
<1>2. /\ proc' \in [Pids -> [st : Stages, mode : {"serve", "catch"}, mem : SUBSET Ids]]
      /\ St(p)' = st /\ proc'[p].mem = disk
      /\ \A q \in Pids \ {p} : St(q)' = St(q) /\ proc'[q] = proc[q]
  <2>1. proc' = [proc EXCEPT ![p].st = st, ![p].mem = disk]
    BY DEF Boot
  <2>2. st \in Stages /\ disk \in SUBSET Ids
    BY DEF Stages, Starting, Inv, TypeOK
  <2> HIDE DEF st
  <2> QED BY <2>1, <2>2, ProcessKeeps DEF Inv
<1> HIDE DEF taken
<1>3. p \in Alive /\ \A q \in Alive : q = p
  BY <1>1 DEF Inv, OneAlive, Alive, In, Leaving, Stages, Starting
<1>4. \A q \in Pids \ {p} : St(q) \in {"none", "gone"} /\ St(q)' \in {"none", "gone"}
  BY <1>2, <1>3 DEF Alive, In, Inv, TypeOK, St
<1>5. TypeOK'
  BY <1>1, <1>2 DEF Inv, TypeOK
<1>6. OneAlive'
  BY <1>4 DEF OneAlive, Alive, In
<1>7. FilesKnown'
  BY <1>1, <1>2, <1>4 DEF FilesKnown, Answering
<1>8. QueueSaved'
  BY <1>1, <1>2, <1>4 DEF Inv, QueueSaved, AcceptedKept, In, Holding, Starting, Answering
<1>9. CommandKnows'
  <2>1. ASSUME NEW c \in Clients PROVE cl[c].pc = "wait" /\ cl[c].op # "stop" /\ said[c] # "stopped"
    <3>1. p \in In({"new", "loaded", "port"}) /\ p \in In(Starting \cup {"up"})
      BY <1>1 DEF In, Starting
    <3> QED BY <2>1, <3>1 DEF Inv, CommandKnows, TypeOK
  <2> QED BY <1>1, <2>1 DEF CommandKnows
<1> QED BY <1>5, <1>6, <1>7, <1>8, <1>9 DEF Inv

(* The other steps of a process: it goes on to a later stage.                *)
LEMMA OnlyOneAlive ==
  ASSUME Inv, NEW p \in Pids, St(p) \notin {"none", "gone", "new"} \cup Leaving
  PROVE  \A q \in Pids \ {p} : St(q) \in {"none", "gone"}
BY DEF Inv, OneAlive, Alive, In, TypeOK, St

(* A process that serves goes on to stop, or has stopped its queue.          *)
LEMMA StoppingKeeps ==
  ASSUME Inv, NEW p \in Pids, NEW st \in {"stopping", "quitting", "closed"},
         St(p) \in Answering, Move(p, st), UNCHANGED <<file, disk, accepted, cl, said, commands>>
  PROVE  Inv'
<1>1. /\ proc' \in [Pids -> [st : Stages, mode : {"serve", "catch"}, mem : SUBSET Ids]]
      /\ St(p)' = st /\ proc'[p].mem = proc[p].mem
      /\ \A q \in Pids \ {p} : St(q)' = St(q) /\ proc'[q] = proc[q]
  BY MoveKeeps DEF Inv, Stages, Ending
<1>2. \A q \in Pids \ {p} : St(q) \in {"none", "gone"} /\ St(q)' \in {"none", "gone"}
  BY <1>1, OnlyOneAlive DEF Answering, Leaving, Clearing
<1>3. file = NamedBy(p) /\ proc[p].mem = disk
  BY DEF Inv, FilesKnown, QueueSaved, In, Holding
<1>4. TypeOK'
  BY <1>1 DEF Inv, TypeOK
<1>5. OneAlive'
  BY <1>2 DEF OneAlive, Alive, In
<1>6. FilesKnown'
  BY <1>1, <1>2, <1>3 DEF FilesKnown, Answering
<1>7. QueueSaved'
  BY <1>1, <1>2, <1>3 DEF Inv, QueueSaved, AcceptedKept, In, Holding, Starting, Answering
<1>8. CommandKnows'
  <2>1. file.port = p
    BY <1>3 DEF NamedBy
  <2>2. /\ In({"new", "loaded", "port"})' = {} /\ In(Starting \cup {"up"})' = {}
        /\ \A q \in In({"token"} \cup Answering)' : q = p
        /\ \A q \in In({"closed"})' : q = p
    BY <1>1, <1>2 DEF In, Starting, Answering
  <2>3. p \in Owners /\ p \in In({"token"} \cup Answering)
    BY DEF Owners, In, Holding
  <2> QED BY <2>1, <2>2, <2>3 DEF Inv, CommandKnows
<1> QED BY <1>4, <1>5, <1>6, <1>7, <1>8 DEF Inv

(* A process writes queue.json no more, or is killed; it may clear the files. *)
LEMMA EndKeeps ==
  ASSUME Inv, NEW p \in Pids, NEW st \in Clearing \cup {"gone"},
         St(p) \notin {"none", "gone"},
         st = "gone" \/ St(p) \in Leaving \cup {"quitting"},
         Move(p, st), UNCHANGED <<disk, accepted, cl, said, commands>>,
         \/ file' = file
         \/ St(p) \in Clearing /\ file' \in Files /\ (file = NoFiles => file' = NoFiles)
  PROVE  Inv'
<1>1. /\ proc' \in [Pids -> [st : Stages, mode : {"serve", "catch"}, mem : SUBSET Ids]]
      /\ St(p)' = st /\ proc'[p].mem = proc[p].mem
      /\ \A q \in Pids \ {p} : St(q)' = St(q) /\ proc'[q] = proc[q]
  BY MoveKeeps DEF Inv, Stages, Ending
<1>2. TypeOK'
  BY <1>1 DEF Inv, TypeOK
<1>3. OneAlive'
  <2>1. ASSUME NEW q \in Pids, St(q)' \notin {"none", "gone"}
        PROVE  /\ St(q) \notin {"none", "gone"}
               /\ q = p => St(p)' \in Clearing
               /\ q # p => St(q)' = St(q)
    BY <1>1, <2>1
  <2>2. ASSUME NEW q \in Pids \ {p}, St(q)' \notin {"none", "gone"}, St(p)' # "gone"
        PROVE  St(q)' = "new" /\ St(p)' \in Leaving
    <3>1. St(q) = St(q)' /\ St(p) # "new" /\ st \in Leaving
      BY <1>1, <2>2 DEF Leaving, Clearing
    <3>2. p \in Alive /\ q \in Alive
      BY <1>1, <2>2, <3>1 DEF Alive, In, Inv, TypeOK, St
    <3> QED BY <1>1, <3>1, <3>2 DEF Inv, OneAlive
  <2>3. ASSUME NEW q \in Pids \ {p}, NEW r \in Pids \ {p}, q \in Alive', r \in Alive'
        PROVE  \/ q = r
               \/ St(q)' = "new" /\ St(r)' \in Leaving
               \/ St(r)' = "new" /\ St(q)' \in Leaving
    BY <1>1, <2>3 DEF Inv, OneAlive, Alive, In
  <2> QED BY <1>1, <2>2, <2>3 DEF OneAlive, Alive, In
<1>4. FilesKnown'
  <2>1. ASSUME NEW q \in Pids \ {p}, file' # file, St(q) \notin {"none", "gone"}
        PROVE  St(q) = "new" /\ file' = NoFiles
    <3>1. St(q) = "new"
      BY <2>1 DEF Inv, OneAlive, Alive, In, TypeOK, St, Leaving, Clearing
    <3> QED BY <2>1, <3>1 DEF Inv, FilesKnown
  <2>2. ASSUME NEW q \in Pids \ {p}, file' = file
        PROVE  /\ St(q)' \in {"new", "loaded"} => file' = NoFiles
               /\ St(q)' = "port" => file' = [NoFiles EXCEPT !.port = q]
               /\ St(q)' = "token" => file' = [NamedBy(q) EXCEPT !.pid = 0]
               /\ St(q)' \in Answering => file' = NamedBy(q)
               /\ St(q)' = "closed" => file' \in {NamedBy(q), NoFiles}
    BY <1>1, <2>2 DEF Inv, FilesKnown
  <2>3. St(p)' \notin {"new", "loaded", "port", "token", "closed"} \cup Answering
    BY <1>1 DEF Clearing, Answering
  <2>4. ASSUME NEW q \in Pids \ {p}, file' # file
        PROVE  /\ St(q)' \in {"new", "loaded"} => file' = NoFiles
               /\ St(q)' \notin {"port", "token", "closed"} \cup Answering
    BY <1>1, <2>1, <2>4 DEF Answering
  <2> QED BY <2>2, <2>3, <2>4 DEF FilesKnown
<1>5. QueueSaved'
  BY <1>1 DEF Inv, QueueSaved, AcceptedKept, In, Holding, Starting, Answering, Clearing
<1>6. CommandKnows'
  <2>1. /\ In({"new", "loaded", "port"})' \subseteq In({"new", "loaded", "port"})
        /\ In({"token"} \cup Answering)' \subseteq In({"token"} \cup Answering)
        /\ In(Starting \cup {"up"})' \subseteq In(Starting \cup {"up"})
        /\ In({"closed"})' \subseteq In({"closed"}) /\ Owners' \subseteq Owners
    BY <1>1 DEF In, Owners, Holding, Starting, Answering, Clearing
  <2>2. ASSUME NEW q \in In({"closed"})', file' # file PROVE FALSE
    <3>1. q # p /\ St(q) = "closed" /\ St(p) \in Clearing
      BY <1>1, <2>2 DEF In, Clearing
    <3>2. p \in Alive /\ q \in Alive /\ St(p) # "new" /\ St(q) # "new"
      BY <3>1 DEF Alive, In, Clearing, Stages, Ending
    <3> QED BY <3>1, <3>2 DEF Inv, OneAlive
  <2>3. /\ \A c \in Clients : cl'[c] = cl[c] /\ said'[c] = said[c]
    OBVIOUS
  <2> QED BY <2>1, <2>2, <2>3 DEF Inv, CommandKnows
<1> QED BY <1>2, <1>3, <1>4, <1>5, <1>6 DEF Inv

LEMMA WriteFileKeeps ==
  ASSUME Inv, NEW p \in Pids, WriteFile(p)
  PROVE  Inv'
<1> PICK st \in {"port", "token", "up"} :
      /\ Move(p, st)
      /\ \/ st = "port" /\ St(p) = "loaded" /\ file' = [file EXCEPT !.port = p]
         \/ st = "token" /\ St(p) = "port" /\ file' = [file EXCEPT !.token = p]
         \/ st = "up" /\ St(p) = "token" /\ file' = [file EXCEPT !.pid = p]
  BY DEF WriteFile
<1>1. /\ proc' \in [Pids -> [st : Stages, mode : {"serve", "catch"}, mem : SUBSET Ids]]
      /\ St(p)' = st /\ proc'[p].mem = proc[p].mem
      /\ \A q \in Pids \ {p} : St(q)' = St(q) /\ proc'[q] = proc[q]
  BY MoveKeeps DEF Inv, Stages, Starting, Answering
<1>2. \A q \in Pids \ {p} : St(q) \in {"none", "gone"} /\ St(q)' \in {"none", "gone"}
  BY <1>1, OnlyOneAlive DEF Leaving, Clearing
<1>3. UNCHANGED <<disk, accepted, cl, said, commands>> /\ p \in In(Holding)
  BY DEF WriteFile, In, Holding
<1>4. /\ St(p)' = "port" => file' = [NoFiles EXCEPT !.port = p]
      /\ St(p)' = "token" => file' = [NamedBy(p) EXCEPT !.pid = 0]
      /\ St(p)' = "up" => file' = NamedBy(p)
  BY <1>1 DEF Inv, FilesKnown, NoFiles, NamedBy
<1>5. file' \in Files
  BY DEF Inv, TypeOK, Files
<1>6. TypeOK'
  BY <1>1, <1>3, <1>5 DEF Inv, TypeOK
<1>7. OneAlive'
  BY <1>2 DEF OneAlive, Alive, In
<1>8. FilesKnown'
  BY <1>1, <1>2, <1>4 DEF FilesKnown, Answering
<1>9. QueueSaved'
  BY <1>1, <1>2, <1>3 DEF Inv, QueueSaved, AcceptedKept, In, Holding, Starting, Answering
<1>10. CommandKnows'
  <2>1. p \in In(Starting \cup {"up"}) /\ (st # "up" => p \in In({"new", "loaded", "port"}))
    BY DEF In, Starting
  <2>2. st = "up" => p \in In({"token"} \cup Answering)
    BY DEF In
  <2>3. /\ st = "up" => In({"new", "loaded", "port"})' = {}
        /\ In({"closed"})' = {}
        /\ \A q \in In({"token"} \cup Answering)' : q = p
    BY <1>1, <1>2 DEF In, Answering
  <2> QED BY <1>3, <2>1, <2>2, <2>3 DEF Inv, CommandKnows, Owners
<1> QED BY <1>6, <1>7, <1>8, <1>9, <1>10 DEF Inv

(* Whatever a process does, or is done to it, keeps the invariant.           *)
LEMMA ProcessStepKeeps ==
  ASSUME Inv, OnTime, NEW p \in Pids, ProcessStep(p) \/ Quit(p) \/ Signal(p) \/ Kill(p)
  PROVE  Inv'
<1>1. CASE Boot(p)
  BY <1>1, BootKeeps
<1>2. CASE WriteFile(p)
  BY <1>2, WriteFileKeeps
<1>3. CASE StopQueue(p)
  <2>1. disk' = disk
    BY <1>3 DEF StopQueue, Inv, QueueSaved, In, Holding, Answering
  <2> QED BY <1>3, <2>1, StoppingKeeps DEF StopQueue, Answering
<1>4. CASE LastSave(p)
  <2>1. disk' = disk
    BY <1>4 DEF LastSave, Inv, QueueSaved, In, Holding, Answering
  <2> QED BY <1>4, <2>1, EndKeeps DEF LastSave, Leaving, Clearing
<1>5. CASE ClearOwn(p)
  <2>1. PICK st \in {"unport", "untoken", "gone"} :
          /\ Move(p, st) /\ St(p) \in Clearing
          /\ file' \in {[file EXCEPT !.port = 0], [file EXCEPT !.token = 0], [file EXCEPT !.pid = 0]}
    BY <1>5 DEF ClearOwn, Clearing
  <2>2. file' \in Files
    BY <2>1 DEF Inv, TypeOK, Files
  <2>3. file = NoFiles => file' = NoFiles
    BY <2>1 DEF NoFiles
  <2> QED BY <1>5, <2>1, <2>2, <2>3, EndKeeps DEF ClearOwn, Leaving, Clearing
<1>6. CASE Quit(p)
  BY <1>6, StoppingKeeps DEF Quit, Answering
<1>7. CASE Signal(p)
  <2>1. PICK st \in {"stopping", "gone"} : Move(p, st)
    <3>1. /\ St(p) \notin {"none", "gone"} \cup Ending
          /\ proc[p].mode = "serve" => Terminated(p) = [proc EXCEPT ![p].st = "stopping"]
          /\ proc[p].mode # "serve" => Terminated(p) = [proc EXCEPT ![p].st = "gone"]
      BY <1>7 DEF Signal, Terminated, St, Ending, Clearing
    <3> QED BY <1>7, <3>1 DEF Signal, Move
  <2> QED BY <1>7, <2>1, StoppingKeeps, EndKeeps DEF Signal, Answering
<1>8. CASE Kill(p)
  BY <1>8, EndKeeps DEF Kill
<1> QED BY <1>1, <1>2, <1>3, <1>4, <1>5, <1>6, <1>7, <1>8 DEF ProcessStep

-----------------------------------------------------------------------------
(* Commands, of one terminal. *)

OneTerminal == \A b, c \in Clients : b = c

LEMMA AddKeeps ==
  ASSUME Inv, NEW d \in Ids, Add(d)
  PROVE  Inv'
<1> PICK p \in Reached(file) :
      proc' = [proc EXCEPT ![p].mem = @ \cup {d}] /\ disk' = proc[p].mem \cup {d}
  BY DEF Add
<1>1. p \in Pids /\ St(p) \in Answering /\ p \in In(Holding) /\ proc[p].mem = disk
  BY DEF Reached, In, Holding, Inv, QueueSaved
<1>2. /\ proc' \in [Pids -> [st : Stages, mode : {"serve", "catch"}, mem : SUBSET Ids]]
      /\ proc'[p].mem = disk' /\ disk' = disk \cup {d}
      /\ \A q \in Pids : St(q)' = St(q)
      /\ \A q \in Pids \ {p} : St(q) \in {"none", "gone"} /\ proc'[q] = proc[q]
  <2>1. \A q \in Pids \ {p} : St(q) \in {"none", "gone"}
    BY <1>1, OnlyOneAlive DEF Answering, Leaving, Clearing
  <2>2. /\ proc[p].mem \in SUBSET Ids /\ p \in Pids
        /\ proc \in [Pids -> [st : Stages, mode : {"serve", "catch"}, mem : SUBSET Ids]]
    BY <1>1 DEF Inv, TypeOK
  <2>3. /\ proc' \in [Pids -> [st : Stages, mode : {"serve", "catch"}, mem : SUBSET Ids]]
        /\ proc'[p].mem = proc[p].mem \cup {d}
        /\ \A q \in Pids : proc'[q].st = proc[q].st
        /\ \A q \in Pids \ {p} : proc'[q] = proc[q]
    BY <2>2
  <2> QED BY <1>1, <2>1, <2>3 DEF St
<1>3. UNCHANGED <<file, cl, said, commands>> /\ accepted' = accepted \cup {d}
  BY DEF Add
<1>4. \A stages : In(stages)' = In(stages)
  BY <1>2 DEF In
<1>5. TypeOK'
  BY <1>2, <1>3 DEF Inv, TypeOK
<1>6. OneAlive' /\ FilesKnown' /\ CommandKnows'
  BY <1>2, <1>3, <1>4 DEF Inv, OneAlive, Alive, FilesKnown, CommandKnows, Owners, In
<1>7. QueueSaved'
  BY <1>2, <1>3 DEF Inv, QueueSaved, AcceptedKept, In, Holding, Starting, Answering
<1> QED BY <1>5, <1>6, <1>7 DEF Inv

(* A step of the one terminal that leaves processes and files as they are.   *)
LEMMA TerminalKeeps ==
  ASSUME Inv, OneTerminal, NEW c \in Clients, UNCHANGED <<proc, file, disk, accepted>>,
         TypeOK',
         cl'[c].pc \in {"idle", "read"}, said'[c] # "stopped",
         In({"new", "loaded", "port"}) = {},
         cl'[c].pc = "read" => cl'[c].ep = file
  PROVE  Inv'
<1>1. \A stages : In(stages)' = In(stages)
  BY DEF In, St
<1>2. OneAlive' /\ FilesKnown' /\ QueueSaved'
  BY DEF Inv, OneAlive, Alive, FilesKnown, QueueSaved, AcceptedKept, In, St
<1>3. ASSUME NEW p \in Pids, St(p) \in {"token"} \cup Answering
      PROVE  file.port = p /\ file.token = p
  <2>1. file = NamedBy(p) \/ file = [NamedBy(p) EXCEPT !.pid = 0]
    BY <1>3 DEF Inv, FilesKnown
  <2> QED BY <2>1 DEF NamedBy
<1>4. ASSUME NEW p \in Pids, St(p) = "closed", Named(file)
      PROVE  file.port = p
  <2>1. file = NamedBy(p) \/ file = NoFiles
    BY <1>4 DEF Inv, FilesKnown
  <2> QED BY <1>4, <2>1 DEF NamedBy, NoFiles, Named
<1>5. CommandKnows'
  <2>1. \A b \in Clients : b = c
    BY DEF OneTerminal
  <2>2. In({"new", "loaded", "port"})' = {}
    BY <1>1
  <2>3. cl'[c].pc = "read" =>
          /\ \A p \in In({"token"} \cup Answering)' : cl'[c].ep.port = p /\ cl'[c].ep.token = p
          /\ Named(cl'[c].ep) => \A p \in In({"closed"})' : file'.port = p
    <3>1. /\ \A p \in In({"token"} \cup Answering) : file.port = p /\ file.token = p
          /\ Named(file) => \A p \in In({"closed"}) : file.port = p
      BY <1>3, <1>4 DEF In
    <3>2. In({"token"} \cup Answering)' = In({"token"} \cup Answering) /\ In({"closed"})' = In({"closed"})
      BY <1>1
    <3> QED BY <3>1, <3>2
  <2> QED BY <2>1, <2>2, <2>3 DEF CommandKnows
<1> QED BY <1>2, <1>5 DEF Inv

LEMMA SaysTyped ==
  ASSUME TypeOK, NEW c \in Clients, UNCHANGED <<commands>>,
         NEW answer \in {"nothing", "already running", "started", "did not start",
                         "not running", "stopped"}, Says(c, answer)
  PROVE  /\ cl' \in [Clients -> [op : {"none", "serve", "catch", "stop"},
                                 pc : {"idle", "read", "wait"}, ep : Files]]
         /\ said' \in [Clients -> {"nothing", "already running", "started", "did not start",
                                   "not running", "stopped"}]
         /\ cl'[c].pc = "idle" /\ said'[c] = answer
<1>1. idle \in [op : {"none", "serve", "catch", "stop"}, pc : {"idle", "read", "wait"}, ep : Files]
  BY LifecycleAssumption DEF idle, Files, NoFiles
<1>2. idle.pc = "idle"
  BY DEF idle
<1> HIDE DEF idle
<1> QED BY <1>1, <1>2 DEF Says, TypeOK

LEMMA BeginKeeps ==
  ASSUME Inv, OneTerminal, NEW c \in Clients, NEW op \in {"serve", "catch", "stop"}, Begin(c, op)
  PROVE  Inv'
<1>1. /\ cl' = [cl EXCEPT ![c] = [op |-> op, pc |-> "read", ep |-> file]]
      /\ said' = [said EXCEPT ![c] = "nothing"] /\ commands' = commands + 1
      /\ cl[c].pc = "idle" /\ commands < MaxCommands /\ UNCHANGED <<proc, file, disk, accepted>>
  BY DEF Begin
<1>2. TypeOK'
  <2>1. commands' \in 0..MaxCommands
    <3>1. commands \in 0..MaxCommands /\ MaxCommands \in Nat
      BY LifecycleAssumption DEF Inv, TypeOK
    <3> QED BY <1>1, <3>1
  <2>2. [op |-> op, pc |-> "read", ep |-> file]
          \in [op : {"none", "serve", "catch", "stop"}, pc : {"idle", "read", "wait"}, ep : Files]
    BY DEF Inv, TypeOK
  <2> QED BY <1>1, <2>1, <2>2 DEF Inv, TypeOK
<1>3. cl'[c].pc = "read" /\ cl'[c].ep = file /\ said'[c] = "nothing"
  BY <1>1 DEF Inv, TypeOK
<1>4. In({"new", "loaded", "port"}) = {}
  BY <1>1 DEF Inv, CommandKnows
<1> QED BY <1>1, <1>2, <1>3, <1>4, TerminalKeeps

(* The answers that change nothing. *)
LEMMA AnswerKeeps ==
  ASSUME Inv, OneTerminal, OnTime, NEW c \in Clients,
         AlreadyRunning(c) \/ NotRunning(c) \/ Launched(c)
  PROVE  Inv'
<1> PICK answer \in {"already running", "not running", "started", "did not start"} : Says(c, answer)
  BY DEF AlreadyRunning, NotRunning, Launched
<1>1. UNCHANGED <<proc, file, disk, accepted, commands>>
  BY DEF AlreadyRunning, NotRunning, Launched
<1>2. TypeOK' /\ cl'[c].pc = "idle" /\ said'[c] # "stopped"
  <2>1. TypeOK /\ UNCHANGED <<commands>>
    BY <1>1 DEF Inv
  <2>2. /\ cl' \in [Clients -> [op : {"none", "serve", "catch", "stop"},
                                pc : {"idle", "read", "wait"}, ep : Files]]
        /\ said' \in [Clients -> {"nothing", "already running", "started", "did not start",
                                  "not running", "stopped"}]
        /\ cl'[c].pc = "idle" /\ said'[c] = answer
    BY <2>1, SaysTyped
  <2>3. TypeOK'
    BY <1>1, <2>1, <2>2 DEF TypeOK
  <2> QED BY <2>2, <2>3
<1>3. In({"new", "loaded", "port"}) = {}
  <2>1. CASE cl[c].pc = "read"
    BY <2>1 DEF Inv, CommandKnows
  <2>2. CASE Launched(c) /\ Named(file)
    <3>1. NoFiles.port = 0 /\ \A p \in Pids : ~Named([NoFiles EXCEPT !.port = p])
      BY DEF NoFiles, Named
    <3>2. \A p \in Pids : St(p) \notin {"new", "loaded", "port"}
      BY <2>2, <3>1 DEF Inv, FilesKnown, Named
    <3> QED BY <3>2 DEF In
  <2>3. CASE Launched(c) /\ ~Named(file)
    <3>1. In(Starting) = {}
      BY <2>3 DEF Launched, OnTime
    <3> QED BY <3>1 DEF In, Starting
  <2> QED BY <2>1, <2>2, <2>3 DEF AlreadyRunning, NotRunning
<1> QED BY <1>1, <1>2, <1>3, TerminalKeeps

(* A command that has found nobody: no process answers, or will.             *)
LEMMA NobodyAnswers ==
  ASSUME Inv, OnTime, NEW c \in Clients, cl[c].pc = "read", Named(cl[c].ep), ~Late(cl[c].ep)
  PROVE  In({"token"}) = {} /\ In(Starting) = {}
<1>1. ASSUME NEW p \in Pids, St(p) = "token" PROVE FALSE
  <2>1. cl[c].ep.port = p /\ cl[c].ep.token = p
    BY <1>1 DEF Inv, CommandKnows, In
  <2> QED BY <1>1, <2>1 DEF Late, In, OnTime
<1>2. In({"new", "loaded", "port"}) = {}
  BY DEF Inv, CommandKnows
<1> QED BY <1>1, <1>2 DEF In, Starting

LEMMA LaunchKeeps ==
  ASSUME Inv, OneTerminal, OnTime, NEW c \in Clients, Launch(c)
  PROVE  Inv'
<1> PICK p \in In({"none"}) : proc' = [proc EXCEPT ![p].st = "new", ![p].mode = cl[c].op]
  BY DEF Launch
<1>1. /\ cl[c].op \in {"serve", "catch"} /\ cl[c].pc = "read" /\ file' = NoFiles
      /\ cl' = [cl EXCEPT ![c].pc = "wait"] /\ UNCHANGED <<disk, accepted, said, commands>>
  BY DEF Launch, Goto
<1>2. p \in Pids /\ St(p) = "none"
  BY DEF In
<1>3. ASSUME NEW q \in Pids, St(q) \in {"token"} \cup Answering PROVE FALSE
  <2>1. cl[c].ep.port = q /\ cl[c].ep.token = q
    BY <1>1, <1>3 DEF Inv, CommandKnows, In
  <2>2. q # 0
    BY LifecycleAssumption
  <2>3. Named(cl[c].ep)
    BY <2>1, <2>2 DEF Named
  <2>4. Late(cl[c].ep) \/ Healthy(cl[c].ep)
    BY <1>3, <2>1, <2>3 DEF Late, Healthy, Reached, In, OnTime
  <2> QED BY <2>4 DEF Launch
<1>4. In({"new", "loaded", "port"}) = {}
  BY <1>1 DEF Inv, CommandKnows
<1>5. \A q \in Pids : St(q) \in {"none", "gone"} \cup Leaving
  BY <1>3, <1>4 DEF In, Inv, TypeOK, St, Stages, Starting, Answering, Ending, Leaving
<1>6. /\ proc' \in [Pids -> [st : Stages, mode : {"serve", "catch"}, mem : SUBSET Ids]]
      /\ St(p)' = "new" /\ \A q \in Pids \ {p} : St(q)' = St(q) /\ proc'[q] = proc[q]
  <2>1. /\ proc \in [Pids -> [st : Stages, mode : {"serve", "catch"}, mem : SUBSET Ids]]
        /\ "new" \in Stages /\ cl[c].op \in {"serve", "catch"}
    BY <1>1 DEF Inv, TypeOK, Stages, Starting
  <2> QED BY <1>2, <2>1 DEF St
<1>7. /\ cl' \in [Clients -> [op : {"none", "serve", "catch", "stop"},
                              pc : {"idle", "read", "wait"}, ep : Files]]
      /\ cl'[c].pc = "wait" /\ cl'[c].op # "stop" /\ said'[c] # "stopped"
  <2>1. cl \in [Clients -> [op : {"none", "serve", "catch", "stop"},
                           pc : {"idle", "read", "wait"}, ep : Files]]
    BY DEF Inv, TypeOK
  <2>2. said[c] # "stopped" /\ said' = said
    BY <1>1 DEF Inv, CommandKnows
  <2> QED BY <1>1, <2>1, <2>2
<1>8. TypeOK'
  <2>1. NoFiles \in Files
    BY DEF NoFiles, Files
  <2> QED BY <1>1, <1>6, <1>7, <2>1 DEF Inv, TypeOK
<1>9. OneAlive'
  <2>1. ASSUME NEW q \in Pids \ {p}, q \in Alive'
        PROVE  St(q) \in Leaving /\ St(q)' \in Leaving /\ q \in Alive
    BY <1>5, <1>6, <2>1 DEF Alive, In, Leaving, Clearing
  <2>2. ASSUME NEW q \in Pids \ {p}, NEW r \in Pids \ {p}, q \in Alive', r \in Alive'
        PROVE  q = r
    <3>1. q \in Alive /\ r \in Alive /\ St(q) # "new" /\ St(r) # "new"
      BY <2>1, <2>2 DEF Leaving, Clearing
    <3> QED BY <3>1 DEF Inv, OneAlive
  <2>3. Alive' \subseteq Pids
    BY DEF Alive, In
  <2> QED BY <1>6, <2>1, <2>2, <2>3 DEF OneAlive
<1>10. FilesKnown'
  BY <1>1, <1>5, <1>6 DEF FilesKnown, Answering, Leaving, Clearing
<1>11. QueueSaved'
  BY <1>1, <1>6 DEF Inv, QueueSaved, AcceptedKept, In, Holding, Starting, Answering
<1>12. CommandKnows'
  BY <1>7 DEF CommandKnows, OneTerminal
<1> QED BY <1>8, <1>9, <1>10, <1>11, <1>12 DEF Inv

LEMMA PostShutdownKeeps ==
  ASSUME Inv, OneTerminal, OnTime, NEW c \in Clients, PostShutdown(c)
  PROVE  Inv'
<1>1. /\ cl[c].op = "stop" /\ cl[c].pc = "read" /\ Named(cl[c].ep) /\ ~Late(cl[c].ep)
      /\ cl' = [cl EXCEPT ![c].pc = "wait"] /\ UNCHANGED <<file, disk, accepted, said, commands>>
  BY DEF PostShutdown, Goto
<1>2. In(Starting) = {}
  BY <1>1, NobodyAnswers
<1>3. \A q \in Pids : St(q) = "up" => q \in Reached(cl[c].ep)
  BY <1>1 DEF Inv, CommandKnows, Reached, In, Answering
<1>4. proc' = [q \in Pids |-> IF St(q) = "up" THEN [proc[q] EXCEPT !.st = "stopping"] ELSE proc[q]]
  BY <1>3 DEF PostShutdown
<1>5. \A q \in Pids :
        /\ proc'[q] \in [st : Stages, mode : {"serve", "catch"}, mem : SUBSET Ids]
        /\ proc'[q].mem = proc[q].mem
        /\ St(q)' = IF St(q) = "up" THEN "stopping" ELSE St(q)
  BY <1>4 DEF Inv, TypeOK, St, Stages, Ending
<1>6. /\ cl' \in [Clients -> [op : {"none", "serve", "catch", "stop"},
                              pc : {"idle", "read", "wait"}, ep : Files]]
      /\ cl'[c].pc = "wait" /\ said'[c] # "stopped"
  BY <1>1 DEF Inv, TypeOK, CommandKnows
<1>7. TypeOK'
  BY <1>1, <1>4, <1>5, <1>6 DEF Inv, TypeOK
<1>8. Alive' = Alive /\ \A q \in Pids :
        /\ St(q) = "new" <=> St(q)' = "new"
        /\ St(q) \in Leaving => St(q)' \in Leaving
  BY <1>5 DEF Alive, In, Leaving, Clearing, Stages, Answering, Ending
<1>9. OneAlive'
  BY <1>8 DEF Inv, OneAlive, Alive, In
<1>10. FilesKnown'
  BY <1>1, <1>5 DEF Inv, FilesKnown, Answering
<1>11. QueueSaved'
  <2>1. In(Holding)' = In(Holding)
    BY <1>5 DEF In, Holding, Answering
  <2> QED BY <1>1, <1>5, <2>1 DEF Inv, QueueSaved, AcceptedKept, In
<1>12. CommandKnows'
  <2>1. In(Starting \cup {"up"})' = {}
    BY <1>2, <1>5 DEF In, Starting
  <2>2. \A q \in In({"closed"})' : file'.port = q
    BY <1>1, <1>5 DEF Inv, CommandKnows, In
  <2> QED BY <1>6, <2>1, <2>2 DEF CommandKnows, OneTerminal
<1> QED BY <1>7, <1>9, <1>10, <1>11, <1>12 DEF Inv

LEMMA StopEndsKeeps ==
  ASSUME Inv, OneTerminal, OnTime, NEW c \in Clients, StopEnds(c)
  PROVE  Inv'
<1>1. /\ cl[c].op = "stop" /\ cl[c].pc = "wait" /\ file' = NoFiles /\ Says(c, "stopped")
      /\ UNCHANGED <<disk, accepted, commands>>
  BY DEF StopEnds
<1>2. In(Starting \cup {"up"}) = {} /\ \A p \in In({"closed"}) : file.port = p
  BY <1>1 DEF Inv, CommandKnows
<1>3. ASSUME NEW p \in Pids PROVE St(p) \in {"none", "gone"} \cup Clearing
  <2>1. CASE file.port = 0
    <3>1. p # 0
      BY LifecycleAssumption
    <3>2. St(p) # "closed"
      BY <1>2, <2>1, <3>1 DEF In
    <3>3. St(p) \notin Answering
      <4>1. SUFFICES ASSUME St(p) \in Answering PROVE FALSE
        OBVIOUS
      <4>2. file = NamedBy(p)
        BY <4>1 DEF Inv, FilesKnown
      <4> QED BY <2>1, <3>1, <4>2 DEF NamedBy
    <3>4. St(p) \in Stages /\ St(p) \notin Starting
      BY <1>2 DEF In, Inv, TypeOK, St
    <3> QED BY <3>2, <3>3, <3>4 DEF Stages, Ending, Answering
  <2>2. CASE file.port # 0
    <3>1. In(Starting \cup Ending) = {}
      BY <2>2 DEF StopEnds, OnTime
    <3> QED BY <1>2, <3>1 DEF In, Inv, TypeOK, St, Stages, Ending, Answering
  <2> QED BY <2>1, <2>2
<1>4. UNCHANGED proc
  <2>1. CASE file.port = 0
    BY <2>1 DEF StopEnds
  <2>2. CASE file.port # 0 /\ file.pid # 0
    <3>1. PICK p \in Pids : p = file.pid
      BY <2>2 DEF Inv, TypeOK, Files
    <3>2. In(Starting \cup Ending) = {}
      BY <2>2 DEF StopEnds, OnTime
    <3>3. proc[p].st \in {"none", "gone"}
      BY <1>3, <3>2 DEF In, St, Ending
    <3>4. Terminated(p) = [proc EXCEPT ![p].st = @]
      BY <3>3 DEF Terminated
    <3>5. [proc EXCEPT ![p].st = @] = proc
      BY DEF Inv, TypeOK
    <3> QED BY <2>2, <3>1, <3>4, <3>5 DEF StopEnds
  <2>3. CASE file.port # 0 /\ file.pid = 0
    BY <2>3 DEF StopEnds
  <2> QED BY <2>1, <2>2, <2>3
<1>5. TypeOK' /\ cl'[c].pc = "idle"
  <2>1. NoFiles \in Files
    BY DEF NoFiles, Files
  <2> QED BY <1>1, <1>4, <2>1, SaysTyped DEF Inv, TypeOK
<1>6. /\ \A stages : In(stages)' = In(stages)
      /\ In({"new", "loaded", "port"}) = {} /\ Owners = {}
  BY <1>3, <1>4 DEF In, St, Owners, Holding, Answering, Clearing
<1>7. OneAlive'
  BY <1>4 DEF Inv, OneAlive, Alive, In, St
<1>8. FilesKnown'
  BY <1>3, <1>4 DEF FilesKnown, St, Answering, Clearing
<1>9. QueueSaved'
  BY <1>1, <1>4 DEF Inv, QueueSaved, AcceptedKept, In, St
<1>10. CommandKnows'
  BY <1>5, <1>6 DEF CommandKnows, OneTerminal, Owners
<1> QED BY <1>5, <1>7, <1>8, <1>9, <1>10 DEF Inv

LEMMA InvStep ==
  ASSUME OneTerminal, OnTime, Inv, [Next]_vars
  PROVE  Inv'
<1>1. CASE UNCHANGED vars
  <2>1. UNCHANGED <<proc, file, disk, accepted, cl, said, commands>>
    BY <1>1 DEF vars
  <2>2. \A stages : In(stages)' = In(stages)
    BY <2>1 DEF In, St
  <2>3. TypeOK'
    BY <2>1 DEF Inv, TypeOK
  <2>4. OneAlive'
    BY <2>1, <2>2 DEF Inv, OneAlive, Alive, St
  <2>5. FilesKnown'
    BY <2>1 DEF Inv, FilesKnown, St
  <2>6. QueueSaved'
    BY <2>1, <2>2 DEF Inv, QueueSaved, AcceptedKept
  <2>7. CommandKnows'
    BY <2>1, <2>2 DEF Inv, CommandKnows, Owners
  <2> QED BY <2>3, <2>4, <2>5, <2>6, <2>7 DEF Inv
<1>2. ASSUME NEW p \in Pids, ProcessStep(p) \/ Quit(p) \/ Signal(p) \/ Kill(p) PROVE Inv'
  BY <1>2, ProcessStepKeeps
<1>3. ASSUME NEW c \in Clients, CommandStep(c) PROVE Inv'
  BY <1>3, AnswerKeeps, LaunchKeeps, PostShutdownKeeps, StopEndsKeeps DEF CommandStep
<1>4. ASSUME NEW c \in Clients, NEW op \in {"serve", "catch", "stop"}, Begin(c, op) PROVE Inv'
  BY <1>4, BeginKeeps
<1>5. ASSUME NEW d \in Ids, Add(d) PROVE Inv'
  BY <1>5, AddKeeps
<1> QED BY <1>1, <1>2, <1>3, <1>4, <1>5 DEF Next

LEMMA InvAlways ==
  ASSUME OneTerminal, OnTime
  PROVE  Spec => []Inv
<1>1. Init => Inv
  BY InvInit
<1>2. Inv /\ [Next]_vars => Inv'
  BY InvStep
<1> QED BY <1>1, <1>2, PTL DEF Spec

-----------------------------------------------------------------------------
(* Two processes never keep one queue.json between them: run_service and     *)
(* run_catch read it when the process before will write it no more.          *)
THEOREM OneOwnerAlways ==
  ASSUME OneTerminal, OnTime
  PROVE  Spec => []OneOwner
<1>1. ASSUME Inv PROVE OneOwner
  <2>1. ASSUME NEW p \in Owners, NEW q \in Owners PROVE p = q
    <3>1. p \in Alive /\ q \in Alive /\ St(p) # "new" /\ St(q) # "new"
      BY <2>1 DEF Owners, Alive, In, Holding, Answering, Stages, Starting, Ending
    <3> QED BY <1>1, <3>1 DEF Inv, OneAlive
  <2> QED BY <2>1 DEF OneOwner
<1> QED BY <1>1, InvAlways, PTL

(* What a POST was answered 201 for is in queue.json at every moment after,  *)
(* through stops, kills and new services.                                    *)
THEOREM AcceptedKeptAlways ==
  ASSUME OneTerminal, OnTime
  PROVE  Spec => []AcceptedKept
<1>1. Inv => AcceptedKept
  BY DEF Inv, QueueSaved
<1> QED BY <1>1, InvAlways, PTL

(* Once stop_service has printed its answer nobody has the queue any more.   *)
THEOREM StoppedIsStoppedAlways ==
  ASSUME OneTerminal, OnTime
  PROVE  Spec => []StoppedIsStopped
<1>1. Inv => StoppedIsStopped
  BY DEF Inv, CommandKnows, StoppedIsStopped
<1> QED BY <1>1, InvAlways, PTL

(* The service that serves is the one the files name, so a command finds it. *)
THEOREM NoOrphanAlways ==
  ASSUME OneTerminal, OnTime
  PROVE  Spec => []NoOrphan
<1>1. Inv => NoOrphan
  BY DEF Inv, FilesKnown, NoOrphan, In, Answering, NamedBy
<1> QED BY <1>1, InvAlways, PTL

=============================================================================
