-------------------------- MODULE HTTPServerProofs --------------------------
(***************************************************************************)
(* Stopping the HTTP server, for any number of workers and clients: what a *)
(* worker can still do after stop() has begun, and what has become of the  *)
(* connections the workers took when it returns.                           *)
(***************************************************************************)
EXTENDS HTTPServer, TLAPS

(* A worker that took a connection late does not get back to accept();     *)
(* before stop() nothing is late, and running_ is only set once.           *)
LateInv ==
    /\ worker \in [Workers -> {"none", "open", "check", "accept", "recv", "respond",
                               "close", "exited"}]
    /\ late \in [Workers -> {0, 1}]
    /\ running_ \in BOOLEAN
    /\ main_pc = "start" => \A w \in Workers : worker[w] = "none"
    /\ running_ \/ main_pc = "start" => \A w \in Workers : late[w] = 0
    /\ \A w \in Workers : late[w] = 1 => worker[w] \notin {"none", "open", "accept"}

(* A worker takes one more connection at most after stop() has begun.      *)
THEOREM OneMoreConnection == Spec => []OneLateConnection
<1>1. Init => LateInv
  <2> SUFFICES ASSUME Init PROVE LateInv
    OBVIOUS
  <2>1. /\ worker = [w \in Workers |-> "none"] /\ late = [w \in Workers |-> 0]
        /\ running_ = FALSE
    BY DEF Init
  <2>2. \A w \in Workers : worker[w] = "none" /\ late[w] = 0 /\ late[w] # 1
    BY <2>1
  <2>3. late \in [Workers -> {0, 1}]
    BY <2>1
  <2>4. worker \in [Workers -> {"none", "open", "check", "accept", "recv", "respond",
                                "close", "exited"}]
    BY <2>1
  <2>5. running_ \in BOOLEAN
    BY <2>1
  <2>6. QED
    BY <2>2, <2>3, <2>4, <2>5, Zenon DEF LateInv
<1>2. LateInv /\ [Next]_vars => LateInv'
  <2> SUFFICES ASSUME LateInv, [Next]_vars PROVE LateInv'
    OBVIOUS
  <2> USE DEF LateInv, owner, clients, ghosts
  <2>1. CASE Start
    BY <2>1 DEF Start
  <2>2. CASE Stop
    BY <2>2 DEF Stop
  <2>3. CASE Joined \/ ReturnFromMain
    BY <2>3 DEF Joined, ReturnFromMain, ProcessEnds
  <2>4. ASSUME NEW w \in Workers, OpenSocket(w) PROVE LateInv'
    BY <2>4 DEF OpenSocket
  <2>5. ASSUME NEW w \in Workers, CheckRunning(w) PROVE LateInv'
    <3>1. /\ worker[w] = "check"
          /\ \/ running_ /\ worker' = [worker EXCEPT ![w] = "accept"]
             \/ worker' = [worker EXCEPT ![w] = "exited"]
          /\ UNCHANGED <<main_pc, running_, late>>
      BY <2>5 DEF CheckRunning
    <3>2. QED
      BY <3>1
  <2>6. ASSUME NEW w \in Workers, Accept(w) PROVE LateInv'
    <3>1. /\ worker[w] = "accept" /\ worker' = [worker EXCEPT ![w] = "recv"]
          /\ late' = IF running_ THEN late ELSE [late EXCEPT ![w] = @ + 1]
          /\ UNCHANGED <<main_pc, running_>>
      BY <2>6 DEF Accept
    <3>2. late[w] = 0 /\ main_pc # "start"
      BY <3>1
    <3>3. CASE running_
      BY <3>1, <3>2, <3>3
    <3>4. CASE ~running_
      <4>1. late' = [late EXCEPT ![w] = 1]
        BY <3>1, <3>2, <3>4
      <4>2. QED
        BY <3>1, <3>2, <3>4, <4>1
    <3>5. QED
      BY <3>3, <3>4
  <2>7. ASSUME NEW w \in Workers, AcceptFails(w) PROVE LateInv'
    BY <2>7 DEF AcceptFails
  <2>8. ASSUME NEW w \in Workers, Recv(w) PROVE LateInv'
    BY <2>8 DEF Recv
  <2>9. ASSUME NEW w \in Workers, Respond(w) PROVE LateInv'
    <3>1. /\ worker[w] = "respond"
          /\ \/ worker' = [worker EXCEPT ![w] = "close"] /\ main_pc' = main_pc
             \/ worker' = [v \in Workers |-> "exited"] /\ main_pc' = "killed"
          /\ UNCHANGED <<running_, late>>
      BY <2>9 DEF Respond, ProcessEnds
    <3>2. QED
      BY <3>1
  <2>10. ASSUME NEW w \in Workers, CloseClient(w) PROVE LateInv'
    BY <2>10 DEF CloseClient
  <2>11. CASE UNCHANGED <<main_pc, running_, worker, late>>
    BY <2>11
  <2>12. QED
    BY <2>1, <2>2, <2>3, <2>4, <2>5, <2>6, <2>7, <2>8, <2>9, <2>10, <2>11
       DEF Next, MainStep, Work, Signal, Connect, Send, HangUp, vars
<1>3. LateInv => OneLateConnection
  BY DEF LateInv, OneLateConnection
<1>4. QED
  BY <1>1, <1>2, <1>3, PTL DEF Spec
-----------------------------------------------------------------------------
(* A worker in its loop listens at a port of its own, as the server's port *)
(* stays taken while the process lives: what accept() hands it is a client.*)
Serving == {"check", "accept", "recv", "respond", "close"}
ListenInv ==
    /\ \A w \in Workers : worker[w] \in Serving => w \in DOMAIN backlog
    /\ (\E w \in Workers : worker[w] = "open") => Port \in DOMAIN backlog
    /\ main_pc = "start" => \A w \in Workers : worker[w] = "none"

Connections ==
    /\ DOMAIN backlog \subseteq Workers \cup {Port}
    /\ \A p \in DOMAIN backlog : backlog[p] \in Seq(Clients)
Places ==
    /\ worker \in [Workers -> {"none", "open", "check", "accept", "recv", "respond",
                               "close", "exited"}]
    /\ client_fd \in [Workers -> Clients \cup {None}]
    /\ \A w \in Workers : client_fd[w] # None <=> worker[w] \in {"recv", "respond", "close"}
    /\ at \in [Clients -> {"nowhere", "queued", "worker", "closed"}]
ShapeInv == Connections /\ Places /\ ListenInv

(* What the end of the process leaves has its types.                       *)
LEMMA EndedShape ==
    ASSUME NEW cs, at \in [Clients -> {"nowhere", "queued", "worker", "closed"}]
    PROVE  Ended(cs) \in [Clients -> {"nowhere", "queued", "worker", "closed"}]
BY DEF Ended

(* A listening port and its queue of connections have theirs.              *)
LEMMA NewPortShape ==
    ASSUME Connections, NEW q \in Workers \cup {Port},
           DOMAIN backlog' = DOMAIN backlog \cup {q},
           \A p \in DOMAIN backlog' : backlog'[p] = IF p = q THEN <<>> ELSE backlog[p]
    PROVE  Connections'
<1>1. ASSUME NEW p \in DOMAIN backlog'
      PROVE  backlog'[p] \in Seq(Clients)
  <2>1. CASE p = q
    <3>1. backlog'[p] = <<>>
      BY <2>1
    <3>2. <<>> \in Seq(Clients)
      OBVIOUS
    <3>3. QED
      BY <3>1, <3>2, Zenon
  <2>2. CASE p # q
    <3>1. backlog'[p] = backlog[p] /\ p \in DOMAIN backlog
      BY <2>2
    <3>2. QED
      BY <3>1 DEF Connections
  <2>3. QED
    BY <2>1, <2>2
<1>2. DOMAIN backlog' \subseteq Workers \cup {Port}
  BY DEF Connections
<1>3. QED
  BY <1>1, <1>2 DEF Connections

(* The end of the process keeps the types.                                 *)
LEMMA ShapeAtEnd ==
    ASSUME ShapeInv, NEW how, how # "start", ProcessEnds(how)
    PROVE  ShapeInv'
<1>1. at' \in [Clients -> {"nowhere", "queued", "worker", "closed"}]
  BY EndedShape DEF ProcessEnds, ShapeInv, Places
<1>2. /\ worker' = [w \in Workers |-> "exited"]
      /\ client_fd' = [w \in Workers |-> None]
      /\ DOMAIN backlog' = {} /\ main_pc' # "start"
  BY DEF ProcessEnds
<1>3. QED
  BY <1>1, <1>2 DEF ShapeInv, Connections, Places, ListenInv, Serving

(* So does a step of main or of the signal handler.                        *)
LEMMA ShapeOfMain ==
    ASSUME ShapeInv, MainStep \/ Signal
    PROVE  ShapeInv'
<1>1. CASE ReturnFromMain
  BY <1>1, ShapeAtEnd DEF ReturnFromMain
<1>2. CASE Start /\ ~UNCHANGED <<backlog, worker>>
  <2>1. /\ DOMAIN backlog' = DOMAIN backlog \cup {Port}
        /\ \A p \in DOMAIN backlog' :
              backlog'[p] = IF p = Port THEN <<>> ELSE backlog[p]
        /\ worker' = [w \in Workers |-> "open"]
        /\ UNCHANGED <<client_fd, at>>
        /\ main_pc = "start" /\ main_pc' = "poll"
    BY <1>2 DEF Start, Listens, clients
  <2>2. Connections'
    BY <2>1, NewPortShape DEF ShapeInv
  <2>3. Places'
    BY <2>1 DEF ShapeInv, Places, ListenInv
  <2>4. ListenInv'
    BY <2>1 DEF ListenInv, Serving
  <2>5. QED
    BY <2>2, <2>3, <2>4 DEF ShapeInv
<1>3. CASE /\ UNCHANGED <<backlog, worker, client_fd, at>>
           /\ main_pc' = "start" => main_pc = "start"
  BY <1>3 DEF ShapeInv, Connections, Places, ListenInv
<1>4. QED
  BY <1>1, <1>2, <1>3 DEF MainStep, Signal, Stop, Start, Joined, clients

(* So does a step of a worker.                                             *)
LEMMA ShapeOfWorker ==
    ASSUME ShapeInv, NEW w \in Workers, Work(w) \/ AcceptFails(w)
    PROVE  ShapeInv'
<1>1. CASE OpenSocket(w)
  <2>1. worker[w] = "open" /\ Port \in DOMAIN backlog /\ main_pc # "start"
    BY <1>1 DEF OpenSocket, ShapeInv, ListenInv
  <2>2. /\ DOMAIN backlog' = DOMAIN backlog \cup {w}
        /\ \A p \in DOMAIN backlog' :
              backlog'[p] = IF p = w THEN <<>> ELSE backlog[p]
        /\ worker' = [worker EXCEPT ![w] = "check"]
        /\ UNCHANGED <<client_fd, at, main_pc>>
    BY <1>1, <2>1 DEF OpenSocket, Listens, clients, owner
  <2>3. Connections'
    BY <2>2, NewPortShape DEF ShapeInv
  <2>4. Places'
    BY <2>1, <2>2 DEF ShapeInv, Places
  <2>5. ListenInv'
    BY <2>1, <2>2 DEF ShapeInv, Places, ListenInv, Serving
  <2>6. QED
    BY <2>3, <2>4, <2>5 DEF ShapeInv
<1>2. CASE CheckRunning(w) /\ worker' = [worker EXCEPT ![w] = "accept"]
  <2>1. CASE UNCHANGED <<backlog, at, client_fd, main_pc>>
    BY <1>2, <2>1 DEF CheckRunning, ShapeInv, Connections, Places, ListenInv, Serving
  <2>2. worker[w] \in {"check"} /\ w \in DOMAIN worker
    BY <1>2 DEF CheckRunning, ShapeInv, Places
  <2>3. QED
    BY <1>2, <2>1, <2>2 DEF CheckRunning, owner
<1>3. CASE CheckRunning(w) /\ worker' = [worker EXCEPT ![w] = "exited"]
  <2>1. /\ worker[w] = "check" /\ main_pc # "start"
        /\ UNCHANGED <<client_fd, main_pc>>
    BY <1>3 DEF CheckRunning, ShapeInv, ListenInv, owner
  <2>2. CASE UNCHANGED <<backlog, at>>
    BY <1>3, <2>1, <2>2 DEF ShapeInv, Connections, Places, ListenInv, Serving
  <2>3. CASE /\ backlog' = [p \in DOMAIN backlog \ {w} |-> backlog[p]]
             /\ at' = Ended(IF w \in DOMAIN backlog THEN ToSet(backlog[w]) ELSE {})
    <3>1. at' \in [Clients -> {"nowhere", "queued", "worker", "closed"}]
      BY <2>3, EndedShape DEF ShapeInv, Places
    <3>2. /\ DOMAIN backlog' = DOMAIN backlog \ {w}
          /\ \A p \in DOMAIN backlog' : backlog'[p] = backlog[p]
      BY <2>3
    <3>3. Port # w
      BY ServerAssumption
    <3>4. QED
      BY <1>3, <2>1, <3>1, <3>2, <3>3
         DEF ShapeInv, Connections, Places, ListenInv, Serving
  <2>4. QED
    BY <1>3, <2>2, <2>3 DEF CheckRunning
<1>4. CASE Accept(w)
  <2>1. /\ w \in DOMAIN backlog /\ backlog[w] \in Seq(Clients)
        /\ worker[w] = "accept" /\ backlog[w] # <<>> /\ main_pc # "start"
    BY <1>4 DEF Accept, ShapeInv, ListenInv, Connections, Serving
  <2>2. Head(backlog[w]) \in Clients /\ Tail(backlog[w]) \in Seq(Clients)
    BY <2>1
  <2>3. Head(backlog[w]) # None
    BY <2>2, ServerAssumption
  <2>4. /\ client_fd' = [client_fd EXCEPT ![w] = Head(backlog[w])]
        /\ at' = [at EXCEPT ![Head(backlog[w])] = "worker"]
        /\ backlog' = [backlog EXCEPT ![w] = Tail(backlog[w])]
        /\ worker' = [worker EXCEPT ![w] = "recv"]
        /\ UNCHANGED main_pc
    BY <1>4 DEF Accept, owner
  <2>5. QED
    BY <2>1, <2>2, <2>3, <2>4
       DEF ShapeInv, Connections, Places, ListenInv, Serving
<1>5. CASE Recv(w) \/ AcceptFails(w)
  <2>1. /\ worker[w] \in {"recv", "accept"}
        /\ \/ worker[w] = "recv" /\ worker' = [worker EXCEPT ![w] = "respond"]
           \/ worker[w] = "recv" /\ worker' = [worker EXCEPT ![w] = "close"]
           \/ worker[w] = "accept" /\ worker' = [worker EXCEPT ![w] = "check"]
        /\ UNCHANGED <<main_pc, backlog, client_fd, at>>
    BY <1>5 DEF Recv, AcceptFails, owner, clients
  <2>2. QED
    BY <2>1 DEF ShapeInv, Connections, Places, ListenInv, Serving
<1>6. CASE Respond(w) /\ UNCHANGED main_pc
  <2>1. /\ worker[w] = "respond"
        /\ \/ worker' = [worker EXCEPT ![w] = "close"]
              /\ UNCHANGED <<main_pc, backlog, client_fd, at>>
           \/ ProcessEnds("killed")
    BY <1>6 DEF Respond
  <2>2. QED
    BY <2>1, ShapeAtEnd DEF ShapeInv, Connections, Places, ListenInv, Serving
<1>7. CASE Respond(w) /\ ~UNCHANGED main_pc
  BY <1>7, ShapeAtEnd DEF Respond
<1>8. CASE CloseClient(w)
  <2>1. /\ at' \in [Clients -> {"nowhere", "queued", "worker", "closed"}]
        /\ worker[w] = "close"
        /\ client_fd' = [client_fd EXCEPT ![w] = None]
        /\ worker' = [worker EXCEPT ![w] = "check"]
        /\ UNCHANGED <<main_pc, backlog>>
    BY <1>8, EndedShape DEF CloseClient, ShapeInv, Places, owner
  <2>2. QED
    BY <2>1 DEF ShapeInv, Connections, Places, ListenInv, Serving
<1>9. QED
  BY <1>1, <1>2, <1>3, <1>4, <1>5, <1>6, <1>7, <1>8 DEF Work, CheckRunning

(* So does a step of a client.                                             *)
LEMMA ShapeOfClient ==
    ASSUME ShapeInv, NEW c \in Clients,
           \/ \E p \in DOMAIN backlog : Connect(c, p)
           \/ \E path \in Paths : Send(c, path)
           \/ HangUp(c)
    PROVE  ShapeInv'
<1>1. ASSUME NEW p \in DOMAIN backlog, Connect(c, p)
      PROVE  ShapeInv'
  <2>1. Append(backlog[p], c) \in Seq(Clients)
    BY DEF ShapeInv, Connections
  <2>2. /\ backlog' = [backlog EXCEPT ![p] = Append(backlog[p], c)]
        /\ at' = [at EXCEPT ![c] = "queued"]
        /\ UNCHANGED <<main_pc, worker, client_fd>>
    BY <1>1 DEF Connect, owner
  <2>3. QED
    BY <2>1, <2>2 DEF ShapeInv, Connections, Places, ListenInv, Serving
<1>2. CASE UNCHANGED <<main_pc, backlog, worker, client_fd, at>>
  BY <1>2 DEF ShapeInv, Connections, Places, ListenInv
<1>3. QED
  BY <1>1, <1>2 DEF Send, HangUp, owner

(* The queues and the workers are where these lemmas put them, always.     *)
THEOREM ShapeKept == Spec => []ShapeInv
<1>1. Init => ShapeInv
  BY DEF Init, ShapeInv, Connections, Places, ListenInv, Serving
<1>2. ShapeInv /\ [Next]_vars => ShapeInv'
  <2>1. ShapeInv /\ UNCHANGED vars => ShapeInv'
    BY DEF vars, ShapeInv, Connections, Places, ListenInv
  <2>2. QED
    BY <2>1, ShapeOfMain, ShapeOfWorker, ShapeOfClient DEF Next
<1>3. QED
  BY <1>1, <1>2, PTL DEF Spec

(* Every variable keeps its shape; a worker has a descriptor exactly while *)
(* it handles a connection.                                                *)
THEOREM TypeCorrect == Spec => []TypeOK
<1> DEFINE Rest ==
      /\ main_pc \in {"start", "poll", "join", "stopped", "exited", "killed"}
      /\ interrupted \in BOOLEAN /\ port_taken \in BOOLEAN /\ running_ \in BOOLEAN
      /\ sent \in [Clients -> Paths \cup {None}]
      /\ gone \subseteq Clients
      /\ taken \subseteq Clients
      /\ late \in [Workers -> Nat]
<1>1. Init => Rest
  <2>1. SUFFICES ASSUME Init PROVE Rest
    OBVIOUS
  <2>2. QED
    BY <2>1 DEF Init
<1>2. ShapeInv /\ Rest /\ [Next]_vars => Rest'
  <2>1. SUFFICES ASSUME ShapeInv, Rest, [Next]_vars PROVE Rest'
    OBVIOUS
  <2>2. CASE MainStep \/ Signal
    BY <2>1, <2>2
       DEF MainStep, Signal, Start, Stop, Joined, ReturnFromMain, ProcessEnds,
           clients, ghosts
  <2>3. ASSUME NEW w \in Workers, Work(w) \/ AcceptFails(w)
        PROVE  Rest'
    <3>1. CASE Accept(w)
      <4>1. /\ taken' = taken \cup {Head(backlog[w])}
            /\ late' = IF running_ THEN late ELSE [late EXCEPT ![w] = @ + 1]
            /\ UNCHANGED <<owner, sent, gone>>
            /\ worker[w] = "accept" /\ backlog[w] # <<>>
        BY <3>1 DEF Accept
      <4>2. Head(backlog[w]) \in Clients
        BY <2>1, <4>1 DEF ShapeInv, ListenInv, Connections, Serving
      <4>3. late' \in [Workers -> Nat]
        BY <2>1, <4>1
      <4>4. QED
        BY <2>1, <4>1, <4>2, <4>3 DEF owner
    <3>2. CASE Respond(w)
      BY <2>1, <3>2 DEF Respond, ProcessEnds, ghosts
    <3>3. CASE UNCHANGED <<owner, sent, gone, ghosts>>
      BY <2>1, <3>3 DEF owner, ghosts
    <3>4. QED
      BY <2>3, <3>1, <3>2, <3>3
         DEF Work, AcceptFails, OpenSocket, CheckRunning, Recv, CloseClient, clients, ghosts
  <2>4. ASSUME NEW c \in Clients, NEW path \in Paths, Send(c, path)
        PROVE  Rest'
    BY <2>1, <2>4 DEF Send, owner, ghosts
  <2>5. ASSUME NEW c \in Clients, HangUp(c)
        PROVE  Rest'
    BY <2>1, <2>5 DEF HangUp, owner, ghosts
  <2>6. CASE UNCHANGED <<owner, sent, gone, ghosts>>
    BY <2>1, <2>6 DEF owner, ghosts
  <2>7. QED
    BY <2>1, <2>2, <2>3, <2>4, <2>5, <2>6 DEF Next, Connect, vars, owner, ghosts
<1>3. ShapeInv /\ Rest => TypeOK
  BY DEF ShapeInv, Connections, Places, TypeOK
<1>4. QED
  BY <1>1, <1>2, <1>3, ShapeKept, PTL DEF Spec
-----------------------------------------------------------------------------
(* What becomes of a connection.  It waits in one place of one queue, then *)
(* one worker has it; it has its answer when that worker closes it, unless *)
(* the client hung up.  A worker outside its loop has no queue.            *)
Queues ==
    /\ \A p \in DOMAIN backlog : \A i \in 1 .. Len(backlog[p]) : at[backlog[p][i]] = "queued"
    /\ \A p, q \in DOMAIN backlog :
         \A i \in 1 .. Len(backlog[p]), j \in 1 .. Len(backlog[q]) :
           backlog[p][i] = backlog[q][j] => p = q /\ i = j
Handlers ==
    /\ \A w \in Workers : client_fd[w] # None => at[client_fd[w]] = "worker"
    /\ \A v, w \in Workers : client_fd[v] = client_fd[w] /\ client_fd[w] # None => v = w
    /\ \A c \in Clients : at[c] = "worker" => \E w \in Workers : client_fd[w] = c
Answers ==
    /\ DOMAIN got = Clients
    /\ \A c \in Clients : at[c] \in {"nowhere", "queued"} => c \notin taken /\ got[c] = <<>>
    /\ \A w \in Workers : /\ worker[w] \in {"recv", "respond"} => got[client_fd[w]] = <<>>
                          /\ worker[w] = "close" => \/ client_fd[w] \in gone
                                                   \/ Len(got[client_fd[w]]) = 1
    /\ Up => \A c \in Clients \cap taken : at[c] = "closed" => c \in gone \/ Len(got[c]) = 1
Outside ==
    /\ \A w \in Workers : worker[w] \notin Serving => w \notin DOMAIN backlog
    /\ main_pc = "stopped" => \A w \in Workers : worker[w] \in {"none", "exited"}
DrainInv == Queues /\ Handlers /\ Answers /\ Outside

(* The end of the process ends every connection.                           *)
LEMMA DrainAtEnd ==
    ASSUME ShapeInv, DrainInv, NEW how \in {"exited", "killed"}, ProcessEnds(how),
           UNCHANGED <<got, gone, taken>>
    PROVE  DrainInv'
<1>1. /\ \A c \in Clients : at'[c] \in {"nowhere", "closed"}
      /\ \A c \in Clients : at'[c] = "nowhere" => at[c] = "nowhere"
  BY DEF ProcessEnds, Ended, Connected, ShapeInv, Places
<1>2. /\ worker' = [w \in Workers |-> "exited"]
      /\ client_fd' = [w \in Workers |-> None]
      /\ DOMAIN backlog' = {} /\ main_pc' \in {"exited", "killed"}
  BY DEF ProcessEnds
<1>3. QED
  BY <1>1, <1>2 DEF DrainInv, Queues, Handlers, Answers, Outside, Up, Serving

(* A step of main or of the signal handler.                                *)
LEMMA DrainOfMain ==
    ASSUME ShapeInv, DrainInv, MainStep \/ Signal
    PROVE  DrainInv'
<1>1. CASE ReturnFromMain
  BY <1>1, DrainAtEnd DEF ReturnFromMain, ghosts
<1>2. CASE Start /\ ~UNCHANGED <<backlog, worker>>
  <2>1. /\ \A w \in Workers : worker[w] = "none"
        /\ main_pc = "start" /\ main_pc' = "poll"
        /\ DOMAIN backlog' = DOMAIN backlog \cup {Port}
        /\ \A p \in DOMAIN backlog' :
              backlog'[p] = IF p = Port THEN <<>> ELSE backlog[p]
        /\ worker' = [w \in Workers |-> "open"]
        /\ UNCHANGED <<client_fd, at, got, gone, taken>>
    BY <1>2 DEF Start, Listens, clients, ghosts, ShapeInv, ListenInv
  <2>2. Port \notin Workers /\ Len(<<>>) = 0
    BY ServerAssumption
  <2>3. Queues'
    BY <2>1, <2>2 DEF DrainInv, Queues
  <2>4. Handlers' /\ Answers' /\ Outside'
    BY <2>1, <2>2 DEF DrainInv, Handlers, Answers, Outside, Up, Serving
  <2>5. QED
    BY <2>3, <2>4 DEF DrainInv
<1>3. CASE Joined
  BY <1>3 DEF Joined, clients, ghosts, DrainInv, Queues, Handlers, Answers, Outside, Up
<1>4. CASE /\ UNCHANGED <<backlog, worker, client_fd, at, got, gone, taken>>
           /\ (main_pc' = main_pc) \/ (main_pc' \in {"poll", "join"} /\ Up)
  BY <1>4 DEF DrainInv, Queues, Handlers, Answers, Outside, Up
<1>5. QED
  BY <1>1, <1>2, <1>3, <1>4 DEF MainStep, Signal, Stop, Start, clients, ghosts, Up

(* A worker takes the connection that has waited longest.                  *)
LEMMA DrainOfAccept ==
    ASSUME ShapeInv, DrainInv, NEW w \in Workers, Accept(w)
    PROVE  DrainInv'
<1> DEFINE c == Head(backlog[w])
<1>1. /\ w \in DOMAIN backlog /\ backlog[w] \in Seq(Clients)
      /\ worker[w] = "accept" /\ backlog[w] # <<>> /\ client_fd[w] = None
  BY DEF Accept, ShapeInv, ListenInv, Connections, Places, Serving
<1>2. /\ c = backlog[w][1] /\ c \in Clients /\ Len(backlog[w]) \in Nat \ {0}
      /\ Len(Tail(backlog[w])) = Len(backlog[w]) - 1
      /\ \A i \in 1 .. Len(Tail(backlog[w])) : Tail(backlog[w])[i] = backlog[w][i + 1]
  BY <1>1
<1>3. at[c] = "queued" /\ c # None
  BY <1>1, <1>2, ServerAssumption DEF DrainInv, Queues
<1>4. /\ client_fd' = [client_fd EXCEPT ![w] = c]
      /\ at' = [at EXCEPT ![c] = "worker"]
      /\ backlog' = [backlog EXCEPT ![w] = Tail(backlog[w])]
      /\ worker' = [worker EXCEPT ![w] = "recv"]
      /\ taken' = taken \cup {c}
      /\ UNCHANGED <<main_pc, got, gone>>
  BY DEF Accept, owner
<1> HIDE DEF c
<1>5. DOMAIN backlog' = DOMAIN backlog
  BY <1>4
<1>6. ASSUME NEW p \in DOMAIN backlog', NEW i \in 1 .. Len(backlog'[p])
      PROVE  \E j \in 1 .. Len(backlog[p]) : /\ backlog'[p][i] = backlog[p][j]
                                              /\ j = IF p = w THEN i + 1 ELSE i
  <2>1. CASE p = w
    <3>1. backlog'[p] = Tail(backlog[w])
      BY <1>1, <1>4, <2>1
    <3>2. i + 1 \in 1 .. Len(backlog[p]) /\ backlog'[p][i] = backlog[p][i + 1]
      BY <1>2, <2>1, <3>1
    <3>3. QED
      BY <2>1, <3>2
  <2>2. CASE p # w
    <3>1. backlog'[p] = backlog[p]
      BY <1>4, <1>5, <2>2
    <3>2. QED
      BY <2>2, <3>1
  <2>3. QED
    BY <2>1, <2>2
<1>7. Queues'
  <2>1. ASSUME NEW p \in DOMAIN backlog', NEW i \in 1 .. Len(backlog'[p])
        PROVE  at'[backlog'[p][i]] = "queued"
    <3>1. PICK j \in 1 .. Len(backlog[p]) : /\ backlog'[p][i] = backlog[p][j]
                                            /\ j = IF p = w THEN i + 1 ELSE i
      BY <1>6
    <3>2. p # w \/ j # 1
      BY <3>1
    <3>3. 1 \in 1 .. Len(backlog[w]) /\ p \in DOMAIN backlog
      BY <1>2, <1>5
    <3>4. backlog[p][j] # c /\ at[backlog[p][j]] = "queued"
      BY <1>1, <1>2, <3>2, <3>3 DEF DrainInv, Queues
    <3>5. QED
      BY <1>4, <3>1, <3>4 DEF ShapeInv, Places
  <2>2. ASSUME NEW p \in DOMAIN backlog', NEW q \in DOMAIN backlog',
               NEW i \in 1 .. Len(backlog'[p]), NEW j \in 1 .. Len(backlog'[q]),
               backlog'[p][i] = backlog'[q][j]
        PROVE  p = q /\ i = j
    <3>1. PICK k \in 1 .. Len(backlog[p]) : /\ backlog'[p][i] = backlog[p][k]
                                            /\ k = IF p = w THEN i + 1 ELSE i
      BY <1>6
    <3>2. PICK l \in 1 .. Len(backlog[q]) : /\ backlog'[q][j] = backlog[q][l]
                                            /\ l = IF q = w THEN j + 1 ELSE j
      BY <1>6
    <3>3. p = q /\ k = l
      <4>1. p \in DOMAIN backlog /\ q \in DOMAIN backlog
        BY <1>5
      <4>2. backlog[p][k] = backlog[q][l]
        BY <2>2, <3>1, <3>2
      <4>3. QED
        BY <4>1, <4>2 DEF DrainInv, Queues
    <3>4. QED
      BY <3>1, <3>2, <3>3
  <2>3. QED
    BY <2>1, <2>2 DEF Queues
<1>8. Handlers'
  <2>1. \A v \in Workers : client_fd'[v] = IF v = w THEN c ELSE client_fd[v]
    BY <1>4 DEF ShapeInv, Places
  <2>2. \A d \in Clients : at'[d] = IF d = c THEN "worker" ELSE at[d]
    BY <1>4 DEF ShapeInv, Places
  <2>3. \A v \in Workers : client_fd[v] # c
    BY <1>3 DEF DrainInv, Handlers
  <2>4. \A v \in Workers : client_fd'[v] # None => at'[client_fd'[v]] = "worker"
    BY <1>2, <2>1, <2>2, <2>3 DEF DrainInv, Handlers, ShapeInv, Places
  <2>5. \A u, v \in Workers : client_fd'[u] = client_fd'[v] /\ client_fd'[v] # None => u = v
    BY <2>1, <2>3 DEF DrainInv, Handlers
  <2>6. \A d \in Clients : at'[d] = "worker" => \E v \in Workers : client_fd'[v] = d
    BY <1>1, <1>2, <1>3, <2>1, <2>2, ServerAssumption DEF DrainInv, Handlers
  <2>7. QED
    BY <2>4, <2>5, <2>6 DEF Handlers
<1>9. Answers'
  BY <1>1, <1>2, <1>3, <1>4 DEF DrainInv, Answers, Handlers, ShapeInv, Places, Up
<1>10. Outside'
  BY <1>1, <1>4, <1>5 DEF DrainInv, Outside, ShapeInv, Places, Serving
<1>11. QED
  BY <1>7, <1>8, <1>9, <1>10 DEF DrainInv

(* A worker leaves its loop and closes its socket.                         *)
LEMMA DrainOfExit ==
    ASSUME ShapeInv, DrainInv, NEW w \in Workers, CheckRunning(w), ~running_
    PROVE  DrainInv'
<1>1. /\ w \in DOMAIN backlog /\ backlog[w] \in Seq(Clients)
      /\ worker[w] = "check" /\ client_fd[w] = None
  BY DEF CheckRunning, ShapeInv, ListenInv, Connections, Places, Serving
<1>2. /\ worker' = [worker EXCEPT ![w] = "exited"]
      /\ DOMAIN backlog' = DOMAIN backlog \ {w}
      /\ \A p \in DOMAIN backlog' : backlog'[p] = backlog[p]
      /\ at' = Ended(ToSet(backlog[w]))
      /\ UNCHANGED <<main_pc, client_fd, got, gone, taken>>
  BY <1>1 DEF CheckRunning, owner, ghosts
<1>3. ToSet(backlog[w]) = {backlog[w][i] : i \in 1 .. Len(backlog[w])}
  BY <1>1 DEF ToSet
<1>4. \A c \in Clients : \/ c \in ToSet(backlog[w]) /\ at[c] = "queued" /\ at'[c] = "closed"
                         \/ c \notin ToSet(backlog[w]) /\ at'[c] = at[c]
  BY <1>1, <1>2, <1>3 DEF DrainInv, Queues, Ended
<1>5. ASSUME NEW p \in DOMAIN backlog', NEW i \in 1 .. Len(backlog'[p])
      PROVE  at'[backlog'[p][i]] = "queued"
  <2>1. p \in DOMAIN backlog /\ p # w /\ backlog'[p] = backlog[p]
    BY <1>2
  <2>2. backlog[p][i] \in Clients
    BY <2>1 DEF ShapeInv, Connections
  <2>3. backlog[p][i] \notin ToSet(backlog[w]) /\ at[backlog[p][i]] = "queued"
    BY <1>1, <1>3, <2>1 DEF DrainInv, Queues
  <2>4. QED
    BY <1>4, <2>1, <2>2, <2>3
<1>6. Queues'
  BY <1>2, <1>5 DEF DrainInv, Queues
<1>7. Handlers'
  BY <1>1, <1>2, <1>4 DEF DrainInv, Handlers, ShapeInv, Places
<1>8. Answers'
  BY <1>1, <1>2, <1>4 DEF DrainInv, Answers, ShapeInv, Places, Up
<1>9. Outside'
  BY <1>1, <1>2 DEF DrainInv, Outside, ShapeInv, Places, Serving
<1>10. QED
  BY <1>6, <1>7, <1>8, <1>9 DEF DrainInv

(* Any other step of a worker.                                             *)
LEMMA DrainOfWorker ==
    ASSUME ShapeInv, DrainInv, NEW w \in Workers, Work(w) \/ AcceptFails(w)
    PROVE  DrainInv'
<1>1. CASE OpenSocket(w)
  <2>1. /\ worker[w] = "open" /\ Port \in DOMAIN backlog /\ w \notin DOMAIN backlog
        /\ client_fd[w] = None
    BY <1>1 DEF OpenSocket, ShapeInv, ListenInv, Places, DrainInv, Outside, Serving
  <2>2. /\ DOMAIN backlog' = DOMAIN backlog \cup {w}
        /\ \A p \in DOMAIN backlog' :
              backlog'[p] = IF p = w THEN <<>> ELSE backlog[p]
        /\ worker' = [worker EXCEPT ![w] = "check"]
        /\ UNCHANGED <<client_fd, at, main_pc, got, gone, taken>>
    BY <1>1, <2>1 DEF OpenSocket, Listens, clients, owner, ghosts
  <2>3. Len(<<>>) = 0
    OBVIOUS
  <2>4. Queues'
    BY <2>2, <2>3 DEF DrainInv, Queues
  <2>5. Handlers' /\ Answers' /\ Outside'
    BY <2>1, <2>2 DEF DrainInv, Handlers, Answers, Outside, Serving, Up, ShapeInv, Places
  <2>6. QED
    BY <2>4, <2>5 DEF DrainInv
<1>2. CASE /\ worker[w] \in {"check", "accept", "recv"}
           /\ \E next \in Serving \ {"recv"} :
                /\ worker' = [worker EXCEPT ![w] = next]
                /\ next \in {"respond", "close"} => worker[w] = "recv"
                /\ next = "close" => client_fd[w] \in gone
           /\ UNCHANGED <<backlog, client_fd, at, main_pc, got, gone, taken>>
  <2>1. PICK next \in Serving \ {"recv"} :
           /\ worker' = [worker EXCEPT ![w] = next]
           /\ next \in {"respond", "close"} => worker[w] = "recv"
           /\ next = "close" => client_fd[w] \in gone
    BY <1>2
  <2>2. Answers'
    BY <1>2, <2>1 DEF DrainInv, Answers, ShapeInv, Places, Up, Serving
  <2>3. QED
    BY <1>2, <2>1, <2>2 DEF DrainInv, Queues, Handlers, Outside, ShapeInv, Places, Serving
<1>3. CASE CheckRunning(w) /\ running_
  BY <1>2, <1>3 DEF CheckRunning, owner, ghosts, Serving
<1>4. CASE AcceptFails(w) \/ Recv(w)
  BY <1>2, <1>4 DEF AcceptFails, Recv, owner, clients, ghosts, Serving
<1>5. CASE Respond(w) /\ worker' = [worker EXCEPT ![w] = "close"] /\ ~ProcessEnds("killed")
  <2>1. /\ worker[w] = "respond" /\ client_fd[w] \in Clients
        /\ client_fd[w] # None
    BY <1>5 DEF Respond, ShapeInv, Places
  <2>2. PICK r : got' = [got EXCEPT ![client_fd[w]] = Append(@, r)]
    BY <1>5 DEF Respond
  <2>3. /\ got[client_fd[w]] = <<>>
        /\ Len(Append(<<>>, r)) = 1
    BY <2>1 DEF DrainInv, Answers
  <2>4. /\ DOMAIN got' = Clients
        /\ Len(got'[client_fd[w]]) = 1
        /\ \A c \in Clients : c # client_fd[w] => got'[c] = got[c]
    BY <2>1, <2>2, <2>3 DEF DrainInv, Answers
  <2>5. at[client_fd[w]] = "worker"
    BY <2>1 DEF DrainInv, Handlers
  <2>6. UNCHANGED <<main_pc, backlog, client_fd, at, gone, taken>>
    BY <1>5 DEF Respond, ghosts
  <2>7. Answers'
    BY <1>5, <2>1, <2>4, <2>5, <2>6 DEF DrainInv, Answers, Handlers, ShapeInv, Places, Up
  <2>8. QED
    BY <1>5, <2>1, <2>6, <2>7 DEF DrainInv, Queues, Handlers, Outside, ShapeInv, Places, Serving
<1>6. CASE Respond(w) /\ ProcessEnds("killed")
  BY <1>6, DrainAtEnd DEF Respond, ghosts, ProcessEnds
<1>7. CASE CloseClient(w)
  <2>1. /\ worker[w] = "close" /\ client_fd[w] \in Clients /\ client_fd[w] # None
        /\ at[client_fd[w]] = "worker"
    BY <1>7 DEF CloseClient, ShapeInv, Places, DrainInv, Handlers
  <2>2. /\ client_fd' = [client_fd EXCEPT ![w] = None]
        /\ worker' = [worker EXCEPT ![w] = "check"]
        /\ \A c \in Clients : at'[c] = IF c = client_fd[w] THEN "closed" ELSE at[c]
        /\ UNCHANGED <<main_pc, backlog, got, gone, taken>>
    BY <1>7 DEF CloseClient, owner, ghosts, Ended
  <2>3. Queues'
    BY <2>1, <2>2 DEF DrainInv, Queues, ShapeInv, Connections
  <2>4. Handlers'
    BY <2>1, <2>2 DEF DrainInv, Handlers, ShapeInv, Places
  <2>5. Answers'
    BY <2>1, <2>2 DEF DrainInv, Answers, ShapeInv, Places, Up
  <2>6. Outside'
    BY <2>1, <2>2 DEF DrainInv, Outside, ShapeInv, Places, Serving
  <2>7. QED
    BY <2>3, <2>4, <2>5, <2>6 DEF DrainInv
<1>8. QED
  BY <1>1, <1>3, <1>4, <1>5, <1>6, <1>7, DrainOfAccept, DrainOfExit
     DEF Work, Respond, CheckRunning

(* A step of a client.                                                     *)
LEMMA DrainOfClient ==
    ASSUME ShapeInv, DrainInv, NEW c \in Clients,
           \/ \E p \in DOMAIN backlog : Connect(c, p)
           \/ \E path \in Paths : Send(c, path)
           \/ HangUp(c)
    PROVE  DrainInv'
<1>1. ASSUME NEW p \in DOMAIN backlog, Connect(c, p)
      PROVE  DrainInv'
  <2>1. /\ at[c] = "nowhere" /\ backlog[p] \in Seq(Clients)
        /\ backlog' = [backlog EXCEPT ![p] = Append(backlog[p], c)]
        /\ at' = [at EXCEPT ![c] = "queued"]
        /\ UNCHANGED <<main_pc, worker, client_fd, got, gone, taken>>
    BY <1>1 DEF Connect, owner, ghosts, ShapeInv, Connections
  <2>2. /\ Len(Append(backlog[p], c)) = Len(backlog[p]) + 1
        /\ Append(backlog[p], c)[Len(backlog[p]) + 1] = c
        /\ \A i \in 1 .. Len(backlog[p]) : Append(backlog[p], c)[i] = backlog[p][i]
        /\ Len(backlog[p]) \in Nat
    BY <2>1
  <2>3. DOMAIN backlog' = DOMAIN backlog
    BY <2>1
  <2>4. \A q \in DOMAIN backlog : \A i \in 1 .. Len(backlog[q]) : backlog[q][i] # c
    BY <2>1 DEF DrainInv, Queues
  <2>5. ASSUME NEW q \in DOMAIN backlog', NEW i \in 1 .. Len(backlog'[q])
        PROVE  \/ i \in 1 .. Len(backlog[q]) /\ backlog'[q][i] = backlog[q][i]
               \/ q = p /\ i = Len(backlog[p]) + 1 /\ backlog'[q][i] = c
    BY <2>1, <2>2, <2>3
  <2>6. Queues'
    <3>1. ASSUME NEW q \in DOMAIN backlog', NEW i \in 1 .. Len(backlog'[q])
          PROVE  at'[backlog'[q][i]] = "queued"
      BY <2>1, <2>3, <2>5 DEF DrainInv, Queues, ShapeInv, Places
    <3>2. ASSUME NEW q \in DOMAIN backlog', NEW r \in DOMAIN backlog',
                 NEW i \in 1 .. Len(backlog'[q]), NEW j \in 1 .. Len(backlog'[r]),
                 backlog'[q][i] = backlog'[r][j]
          PROVE  q = r /\ i = j
      <4>1. CASE i \in 1 .. Len(backlog[q]) /\ backlog'[q][i] = backlog[q][i]
        <5>1. j \in 1 .. Len(backlog[r]) /\ backlog'[r][j] = backlog[r][j]
          BY <2>3, <2>4, <2>5, <3>2, <4>1
        <5>2. backlog[q][i] = backlog[r][j]
          BY <3>2, <4>1, <5>1
        <5>3. q \in DOMAIN backlog /\ r \in DOMAIN backlog
          BY <2>3
        <5>4. QED
          BY <4>1, <5>1, <5>2, <5>3 DEF DrainInv, Queues
      <4>2. CASE q = p /\ i = Len(backlog[p]) + 1 /\ backlog'[q][i] = c
        BY <2>3, <2>4, <2>5, <3>2, <4>2
      <4>3. QED
        BY <2>5, <4>1, <4>2
    <3>3. QED
      BY <3>1, <3>2 DEF Queues
  <2>7. Handlers' /\ Answers' /\ Outside'
    BY <2>1, <2>3 DEF DrainInv, Handlers, Answers, Outside, Up, ShapeInv, Places
  <2>8. QED
    BY <2>6, <2>7 DEF DrainInv
<1>2. CASE /\ UNCHANGED <<main_pc, backlog, worker, client_fd, at, got, taken>>
           /\ gone \subseteq gone'
  BY <1>2 DEF DrainInv, Queues, Handlers, Answers, Outside, Up
<1>3. QED
  BY <1>1, <1>2 DEF Send, HangUp, owner, ghosts

(* When stop() returns the workers have finished what they had begun: none *)
(* runs or holds a connection, and every connection one of them took is    *)
(* closed, and answered once unless its client hung up.                    *)
THEOREM StopLeavesNothing == Spec => []StopDrains
<1>1. Init => DrainInv
  BY ServerAssumption
     DEF Init, DrainInv, Queues, Handlers, Answers, Outside, Serving
<1>2. ShapeInv /\ DrainInv /\ [Next]_vars => DrainInv'
  <2>1. DrainInv /\ UNCHANGED vars => DrainInv'
    BY DEF vars, DrainInv, Queues, Handlers, Answers, Outside, Up
  <2>2. QED
    BY <2>1, DrainOfMain, DrainOfWorker, DrainOfClient DEF Next
<1>3. ShapeInv /\ DrainInv /\ TypeOK => StopDrains
  <2>1. SUFFICES ASSUME ShapeInv, DrainInv, TypeOK, main_pc = "stopped"
                 PROVE  StopDrains
    BY DEF StopDrains
  <2>2. \A w \in Workers : /\ worker[w] \in {"none", "exited"}
                           /\ client_fd[w] = None /\ w \notin DOMAIN backlog
    BY <2>1 DEF ShapeInv, Places, DrainInv, Outside, Serving
  <2>3. \A c \in taken : at[c] = "closed"
    BY <2>1, <2>2, ServerAssumption
       DEF ShapeInv, Places, DrainInv, Handlers, Answers, TypeOK
  <2>4. \A c \in taken : c \in gone \/ Len(got[c]) = 1
    BY <2>1, <2>3 DEF DrainInv, Answers, TypeOK, Up
  <2>5. QED
    BY <2>2, <2>3, <2>4 DEF StopDrains
<1>4. QED
  BY <1>1, <1>2, <1>3, ShapeKept, TypeCorrect, PTL DEF Spec
=============================================================================
