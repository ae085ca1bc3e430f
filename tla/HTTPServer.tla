----------------------------- MODULE HTTPServer -----------------------------
(***************************************************************************)
(* The HTTP server of serving/nova_server_http.cpp (src/main/remaining/    *)
(* http.ii) and the "server" command of main.ii that runs it: main starts  *)
(* the server, polls a flag its signal handler sets, and stops the server. *)
(*                                                                         *)
(* start() listens on port_ and leaves that socket to nobody.  Every       *)
(* worker opens a socket of its own and binds it to port_ again; the       *)
(* result of bind() is not looked at.  While a socket listens on port_     *)
(* another bind() to it fails, and listen() on a socket without an address *)
(* lets the kernel choose a port: the worker's identity stands for that    *)
(* port.  A connection is what one client makes of it; each client         *)
(* connects once.  Requests and responses are told apart by their path.    *)
(***************************************************************************)
EXTENDS Naturals, Sequences, SequencesExt, FiniteSets

CONSTANTS Workers, Clients, Port,
          Paths,      (* the request lines clients send                     *)
          None

ASSUME ServerAssumption ==
    /\ Port \notin Workers /\ None \notin Workers \cup Clients \cup Paths
    /\ IsFiniteSet(Workers) /\ IsFiniteSet(Clients)

VARIABLES
    main_pc,      (* where main() is                                        *)
    interrupted,  (* a signal came: main's flag "running" is 0              *)
    port_taken,   (* another process listens on port_                       *)
    running_,
    backlog,      (* listening port -> connections nobody accepted yet      *)
    worker,       (* where each worker is in worker_loop()                  *)
    client_fd,    (* the connection each worker handles                     *)
    at,           (* client -> where its connection is                      *)
    sent,         (* client -> the request it sent                          *)
    gone,         (* the clients that hung up                               *)
    got,          (* client -> the responses it was sent                    *)
    taken,        (* ghost: the clients whose connection a worker took      *)
    late          (* ghost: connections a worker took after stop() began    *)

vars == <<main_pc, interrupted, port_taken, running_, backlog, worker,
          client_fd, at, sent, gone, got, taken, late>>
owner == <<main_pc, interrupted, port_taken, running_>>
clients == <<at, sent, gone, got>>
ghosts == <<taken, late>>
-----------------------------------------------------------------------------
Init ==
    /\ main_pc = "start"
    /\ interrupted = FALSE
    /\ port_taken \in BOOLEAN
    /\ running_ = FALSE
    /\ backlog = [p \in {} |-> <<>>]
    /\ worker = [w \in Workers |-> "none"]
    /\ client_fd = [w \in Workers |-> None]
    /\ at = [c \in Clients |-> "nowhere"]
    /\ sent = [c \in Clients |-> None]
    /\ gone = {}
    /\ got = [c \in Clients |-> <<>>]
    /\ taken = {}
    /\ late = [w \in Workers |-> 0]

(* Closing descriptors ends the connections behind them.                   *)
Ended(cs) == [c \in Clients |-> IF c \in cs THEN "closed" ELSE at[c]]

Connected == {c \in Clients : at[c] \notin {"nowhere", "closed"}}

(* The process is gone, with everything it had open.                       *)
ProcessEnds(how) ==
    /\ main_pc' = how
    /\ backlog' = [p \in {} |-> <<>>]
    /\ at' = Ended(Connected)
    /\ client_fd' = [w \in Workers |-> None]
    /\ worker' = [w \in Workers |-> "exited"]

Up == main_pc \notin {"exited", "killed"}
-----------------------------------------------------------------------------
(* signal_handler(), in whatever thread, at any time.                      *)
Signal ==
    /\ Up
    /\ interrupted' = TRUE
    /\ UNCHANGED <<main_pc, port_taken, running_, backlog, worker, client_fd,
                   clients, ghosts>>

Listens(p) == backlog' = [q \in DOMAIN backlog \cup {p} |-> IF q = p THEN <<>> ELSE backlog[q]]

(* start(): running_ is set whether or not the socket can be had.          *)
Start ==
    /\ main_pc = "start"
    /\ running_' = TRUE
    /\ \/ UNCHANGED <<backlog, worker>>            (* socket, bind or listen failed *)
       \/ /\ ~port_taken
          /\ Listens(Port)
          /\ worker' = [w \in Workers |-> "open"]
    /\ main_pc' = "poll"
    /\ UNCHANGED <<interrupted, port_taken, client_fd, clients, ghosts>>

(* main() sees the flag and calls stop().                                  *)
Stop ==
    /\ main_pc = "poll"
    /\ interrupted
    /\ running_' = FALSE
    /\ main_pc' = "join"
    /\ UNCHANGED <<interrupted, port_taken, backlog, worker, client_fd, clients, ghosts>>

(* Mutated form: stop() detaches the workers.                              *)
JoinedDetached ==
    /\ main_pc = "join"
    /\ main_pc' = "stopped"
    /\ UNCHANGED <<interrupted, port_taken, running_, backlog, worker, client_fd,
                   clients, ghosts>>

(* stop() returns when all workers are joined.                             *)
Joined ==
    /\ main_pc = "join"
    /\ \A w \in Workers : worker[w] \in {"none", "exited"}
    /\ main_pc' = "stopped"
    /\ UNCHANGED <<interrupted, port_taken, running_, backlog, worker, client_fd,
                   clients, ghosts>>

(* main() returns.                                                         *)
ReturnFromMain ==
    /\ main_pc = "stopped"
    /\ ProcessEnds("exited")
    /\ UNCHANGED <<interrupted, port_taken, running_, sent, gone, got, ghosts>>
-----------------------------------------------------------------------------
(* socket(), bind() unchecked, listen().                                   *)
OpenSocket(w) ==
    /\ worker[w] = "open"
    /\ Listens(IF Port \in DOMAIN backlog THEN w ELSE Port)
    /\ worker' = [worker EXCEPT ![w] = "check"]
    /\ UNCHANGED <<owner, client_fd, clients, ghosts>>

(* Mutated form: while (true).                                             *)
CheckRunningNever(w) ==
    /\ worker[w] = "check"
    /\ worker' = [worker EXCEPT ![w] = "accept"]
    /\ UNCHANGED <<owner, backlog, client_fd, clients, ghosts>>

(* while (running_), and the close() behind the loop.                      *)
CheckRunning(w) ==
    /\ worker[w] = "check"
    /\ IF running_
       THEN /\ worker' = [worker EXCEPT ![w] = "accept"]
            /\ UNCHANGED <<backlog, at>>
       ELSE /\ worker' = [worker EXCEPT ![w] = "exited"]
            /\ backlog' = [p \in DOMAIN backlog \ {w} |-> backlog[p]]
            /\ at' = Ended(IF w \in DOMAIN backlog THEN ToSet(backlog[w]) ELSE {})
    /\ UNCHANGED <<owner, client_fd, sent, gone, got, ghosts>>

(* accept() takes the connection that has waited longest.                  *)
Accept(w) ==
    /\ worker[w] = "accept"
    /\ backlog[w] # <<>>
    /\ LET c == Head(backlog[w]) IN
       /\ client_fd' = [client_fd EXCEPT ![w] = c]
       /\ at' = [at EXCEPT ![c] = "worker"]
    /\ backlog' = [backlog EXCEPT ![w] = Tail(@)]
    /\ worker' = [worker EXCEPT ![w] = "recv"]
    /\ taken' = taken \cup {Head(backlog[w])}
    /\ late' = IF running_ THEN late ELSE [late EXCEPT ![w] = @ + 1]
    /\ UNCHANGED <<owner, sent, gone, got>>

AcceptFails(w) ==
    /\ worker[w] = "accept"
    /\ worker' = [worker EXCEPT ![w] = "check"]
    /\ UNCHANGED <<owner, backlog, client_fd, clients, ghosts>>

(* Mutated form: a client that hung up is not noticed.                     *)
RecvIgnoresHangUp(w) ==
    /\ worker[w] = "recv"
    /\ sent[client_fd[w]] # None
    /\ worker' = [worker EXCEPT ![w] = "respond"]
    /\ UNCHANGED <<owner, backlog, client_fd, clients, ghosts>>

(* handle_client(): recv() waits for a request or the end of the           *)
(* connection; of a client that sent and hung up it may see either.        *)
Recv(w) ==
    /\ worker[w] = "recv"
    /\ LET c == client_fd[w] IN
       \/ sent[c] # None /\ worker' = [worker EXCEPT ![w] = "respond"]
       \/ c \in gone /\ worker' = [worker EXCEPT ![w] = "close"]
    /\ UNCHANGED <<owner, backlog, client_fd, clients, ghosts>>

(* handle_request(): two paths go to a handler, two have a fixed answer,   *)
(* every other one is not found.                                           *)
Handled == {"/v1/completions", "/v1/chat/completions"}
Fixed == {"/health", "/v1/models"}
Response(path) == [to |-> path, status |-> IF path \in Handled \cup Fixed THEN 200 ELSE 404]

(* The response is sent.  An exception of a handler leaves the thread and  *)
(* ends the process, and so may send() to a client that hung up (SIGPIPE). *)
Respond(w) ==
    /\ worker[w] = "respond"
    /\ LET c == client_fd[w] IN
       \/ /\ got' = [got EXCEPT ![c] = Append(@, Response(sent[c]))]
          /\ worker' = [worker EXCEPT ![w] = "close"]
          /\ UNCHANGED <<main_pc, backlog, client_fd, at>>
       \/ /\ sent[c] \in Handled \/ c \in gone
          /\ ProcessEnds("killed")
          /\ UNCHANGED got
    /\ UNCHANGED <<interrupted, port_taken, running_, sent, gone, ghosts>>

CloseClient(w) ==
    /\ worker[w] = "close"
    /\ at' = Ended({client_fd[w]})
    /\ client_fd' = [client_fd EXCEPT ![w] = None]
    /\ worker' = [worker EXCEPT ![w] = "check"]
    /\ UNCHANGED <<owner, backlog, sent, gone, got, ghosts>>
-----------------------------------------------------------------------------
(* The clients: connect to a port that listens, send a request, hang up.   *)
Connect(c, p) ==
    /\ at[c] = "nowhere"
    /\ at' = [at EXCEPT ![c] = "queued"]
    /\ backlog' = [backlog EXCEPT ![p] = Append(@, c)]
    /\ UNCHANGED <<owner, worker, client_fd, sent, gone, got, ghosts>>

Send(c, path) ==
    /\ c \in Connected \ gone
    /\ sent[c] = None
    /\ sent' = [sent EXCEPT ![c] = path]
    /\ UNCHANGED <<owner, backlog, worker, client_fd, at, gone, got, ghosts>>

HangUp(c) ==
    /\ c \in Connected \ gone
    /\ gone' = gone \cup {c}
    /\ UNCHANGED <<owner, backlog, worker, client_fd, at, sent, got, ghosts>>

Work(w) ==
    OpenSocket(w) \/ CheckRunning(w) \/ Accept(w) \/ Recv(w) \/ Respond(w) \/ CloseClient(w)

MainStep == Start \/ Stop \/ Joined \/ ReturnFromMain

Next ==
    \/ MainStep \/ Signal
    \/ \E w \in Workers : Work(w) \/ AcceptFails(w)
    \/ \E c \in Clients : \/ \E p \in DOMAIN backlog : Connect(c, p)
                          \/ \E path \in Paths : Send(c, path)
                          \/ HangUp(c)

Spec == Init /\ [][Next]_vars

(* The threads run, and accept() does not fail for ever while a connection *)
(* is there.  Nothing is assumed of the clients: one that is connected may *)
(* stay silent for ever.                                                   *)
FairSpec ==
    /\ Spec
    /\ WF_vars(MainStep)
    /\ \A w \in Workers : WF_vars(Work(w)) /\ SF_vars(Accept(w))
-----------------------------------------------------------------------------
(* Every variable keeps its shape.                                         *)
TypeOK ==
    /\ main_pc \in {"start", "poll", "join", "stopped", "exited", "killed"}
    /\ interrupted \in BOOLEAN /\ port_taken \in BOOLEAN /\ running_ \in BOOLEAN
    /\ DOMAIN backlog \subseteq Workers \cup {Port}
    /\ \A p \in DOMAIN backlog : backlog[p] \in Seq(Clients)
    /\ worker \in [Workers -> {"none", "open", "check", "accept", "recv", "respond",
                               "close", "exited"}]
    /\ client_fd \in [Workers -> Clients \cup {None}]
    /\ \A w \in Workers : client_fd[w] # None <=> worker[w] \in {"recv", "respond", "close"}
    /\ at \in [Clients -> {"nowhere", "queued", "worker", "closed"}]
    /\ sent \in [Clients -> Paths \cup {None}]
    /\ gone \subseteq Clients
    /\ taken \subseteq Clients
    /\ late \in [Workers -> Nat]

(* When stop() returns, the workers have finished what they had begun: none*)
(* of them runs, holds a connection or listens, nobody waits at the port of*)
(* one, and every connection one of them took, before stop() or after it   *)
(* had begun, was closed, and answered once unless its client hung up.     *)
StopDrains ==
    main_pc = "stopped" =>
        /\ \A w \in Workers : /\ worker[w] \in {"none", "exited"}
                              /\ client_fd[w] = None
                              /\ w \notin DOMAIN backlog
        /\ \A c \in taken : /\ at[c] = "closed"
                            /\ c \in gone \/ Len(got[c]) = 1

(* A worker takes one more connection at most after stop() has begun.      *)
OneLateConnection == \A w \in Workers : late[w] <= 1

(* A worker in recv() whose client neither sends nor hangs up: nothing in  *)
(* the server ends this.                                                   *)
Silent(w) == worker[w] = "recv" /\ sent[client_fd[w]] = None /\ client_fd[w] \notin gone

(* A worker in accept() with nobody waiting: nothing wakes it either.      *)
Idle(w) == worker[w] = "accept" /\ backlog[w] = <<>>

(* A connection that waits at a worker's port is taken up or ended in the  *)
(* end, unless it waits behind a client that stays silent for ever: workers*)
(* neither starve it nor leave it behind when they exit.                   *)
WaitingIsResolved ==
    \A c \in Clients, w \in Workers :
        <>[](w \in DOMAIN backlog /\ c \in ToSet(backlog[w])) => <>[]Silent(w)

(* main.ii announces "Server stopped." for every interrupted server.  If   *)
(* stop() never returns, a worker stays for ever in accept() with nobody   *)
(* waiting or in recv() with a silent client; nothing else holds it up.    *)
StopWaitsForClientsOnly ==
    <>[](main_pc = "join") => \E w \in Workers : <>[](Idle(w) \/ Silent(w))

(* main.ii: "Starting NOVA HTTP server on port 8080...": a client that     *)
(* connects to that port is served, as long as nobody stops the server.    *)
PortIsServed ==
    \A c \in Clients :
        Port \in DOMAIN backlog /\ c \in ToSet(backlog[Port])
          ~> at[c] # "queued" \/ interrupted \/ c \in gone
=============================================================================
