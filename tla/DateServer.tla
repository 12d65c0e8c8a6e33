----------------------------- MODULE DateServer -----------------------------
(***************************************************************************)
(* The date server of chapter 3 and the one of problem 4.25, which serves  *)
(* each client in a thread of its own and joins it, with their clients.    *)
(* Java's IOException is raised wherever the code is ready for it; the     *)
(* PrintWriter keeps one of a failed write to itself.                      *)
(***************************************************************************)
EXTENDS Integers, Sequences

CONSTANT Clients

VARIABLES
  version,    \* "DateServer", "MyDateServer", or "none" before it is started
  server,     \* where main is: "accept", "serve", "join" or "stopped"
  worker,     \* the step of the code that serves each client, "none" before
  backlog,    \* the connections that wait for accept, in order
  sent,       \* the clients to whom the date got through
  closed,     \* the clients whose connection the server's side has closed
  client      \* where each client is

vars == <<version, server, worker, backlog, sent, closed, client>>

Init ==
  /\ version = "none" /\ server = "accept"
  /\ worker = [c \in Clients |-> "none"]
  /\ backlog = << >> /\ sent = {} /\ closed = {}
  /\ client = [c \in Clients |-> "idle"]

Start ==
  /\ version = "none"
  /\ version' \in {"DateServer", "MyDateServer"}
  /\ UNCHANGED <<server, worker, backlog, sent, closed, client>>

(* new Socket: refused once the server has stopped *)
Connect(c) ==
  /\ version # "none" /\ client[c] = "idle"
  /\ IF server = "stopped"
     THEN client' = [client EXCEPT ![c] = "refused"] /\ UNCHANGED backlog
     ELSE client' = [client EXCEPT ![c] = "reading"] /\ backlog' = Append(backlog, c)
  /\ UNCHANGED <<version, server, worker, sent, closed>>

(* readLine until the end of the stream; the end of the server's process   *)
(* ends the connections too.                                               *)
ReadLines(c) ==
  /\ client[c] = "reading" /\ (c \in closed \/ server = "stopped")
  /\ client' = [client EXCEPT ![c] = IF c \in sent THEN "printed" ELSE "nothing"]
  /\ UNCHANGED <<version, server, worker, backlog, sent, closed>>

(* accept; in MyDateServer main starts a worker *)
Accept ==
  /\ server = "accept" /\ backlog # << >>
  /\ worker' = [worker EXCEPT ![Head(backlog)] = "write"]
  /\ backlog' = Tail(backlog)
  /\ server' = IF version = "MyDateServer" THEN "join" ELSE "serve"
  /\ UNCHANGED <<version, sent, closed, client>>

AcceptFails ==
  /\ version # "none" /\ server = "accept"
  /\ server' = "stopped"
  /\ UNCHANGED <<version, worker, backlog, sent, closed, client>>

(* getOutputStream and println: when the write fails println does not      *)
(* throw, and nobody calls checkError, so the code goes on without a date. *)
WriteDate(c) ==
  /\ worker[c] = "write" /\ server # "stopped"
  /\ worker' = [worker EXCEPT ![c] = "close"]
  /\ sent' \in {sent, sent \cup {c}}
  /\ UNCHANGED <<version, server, backlog, closed, client>>

(* client.close(): DateServer goes back to accept. *)
Close(c) ==
  /\ worker[c] = "close" /\ server # "stopped"
  /\ worker' = [worker EXCEPT ![c] = "done"]
  /\ closed' = closed \cup {c}
  /\ server' = IF version = "MyDateServer" THEN server ELSE "accept"
  /\ UNCHANGED <<version, backlog, sent, client>>

(* Mutant: run() has one try block, an exception skips client.close(). *)
FaultSkipsClose(c) ==
  /\ worker[c] \in {"write", "close"} /\ server # "stopped"
  /\ IF version = "MyDateServer"
     THEN worker' = [worker EXCEPT ![c] = "done"] /\ UNCHANGED <<server, closed>>
     ELSE server' = "stopped" /\ UNCHANGED <<worker, closed>>
  /\ UNCHANGED <<version, backlog, sent, client>>

(* An IOException ends DateServer; run() of MyDateServer catches it, and   *)
(* closes the connection if it has not yet tried to.                       *)
Fault(c) ==
  /\ worker[c] \in {"write", "close"} /\ server # "stopped"
  /\ IF version = "MyDateServer"
     THEN /\ worker' = [worker EXCEPT ![c] = IF @ = "write" THEN "close" ELSE "done"]
          /\ closed' = IF worker[c] = "close" THEN closed \cup {c} ELSE closed
          /\ UNCHANGED server
     ELSE server' = "stopped" /\ UNCHANGED <<worker, closed>>
  /\ UNCHANGED <<version, backlog, sent, client>>

(* Mutant: main accepts the next client without join. *)
JoinNot ==
  /\ server = "join"
  /\ server' = "accept"
  /\ UNCHANGED <<version, worker, backlog, sent, closed, client>>

(* worker.join() *)
Join ==
  /\ server = "join"
  /\ \A c \in Clients : worker[c] \in {"none", "done"}
  /\ server' = "accept"
  /\ UNCHANGED <<version, worker, backlog, sent, closed, client>>

Work == \E c \in Clients : Connect(c) \/ ReadLines(c) \/ WriteDate(c) \/ Close(c)

Progress == Start \/ Accept \/ Join \/ Work

Next == Progress \/ AcceptFails \/ \E c \in Clients : Fault(c)

Spec == Init /\ [][Next]_vars /\ WF_vars(Progress)

-----------------------------------------------------------------------------
(* Properties *)

Waits(c) == \E k \in 1 .. Len(backlog) : backlog[k] = c

Served(c) == worker[c] \in {"write", "close"}

(* One client is served at a time, in a thread or not.  While the server   *)
(* runs, whatever failed before, a client that reads is not forgotten: it  *)
(* waits for accept(), or is served, or its connection is closed; and a    *)
(* client that has found the end of the stream, with the date or without,  *)
(* has had its turn: it is not accepted or served again.                   *)
ServedInTurn ==
  /\ \A c, d \in Clients : Served(c) /\ Served(d) => c = d
  /\ server # "stopped" =>
       \A c \in Clients :
         /\ client[c] = "reading" => Waits(c) \/ Served(c) \/ c \in closed
         /\ client[c] \in {"printed", "nothing"} => worker[c] = "done" /\ ~Waits(c)

(* No client waits for ever: it prints the date, or its connection ends,   *)
(* also when the server fails to serve it.                                 *)
ClientsEnded == \A c \in Clients : client[c] \in {"printed", "nothing", "refused"}
EveryClientEnds == <>ClientsEnded

-----------------------------------------------------------------------------
(* The inductive invariant *)

TypeOK ==
  /\ version \in {"none", "DateServer", "MyDateServer"}
  /\ server \in {"accept", "serve", "join", "stopped"}
  /\ worker \in [Clients -> {"none", "write", "close", "done"}]
  /\ backlog \in Seq(Clients)
  /\ client \in [Clients -> {"idle", "reading", "refused", "printed", "nothing"}]

(* main is back at accept only when nobody is being served. *)
AcceptWhenServed == server = "accept" => \A c \in Clients : ~Served(c)

(* A client waits in the backlog once, before it is served, and a          *)
(* connection is closed exactly when its service is over.                  *)
BacklogInTurn ==
  /\ \A c \in Clients :
       /\ Waits(c) => worker[c] = "none" /\ client[c] # "idle"
       /\ client[c] = "idle" => worker[c] = "none"
       /\ c \in closed <=> worker[c] = "done"
  /\ \A k, l \in 1 .. Len(backlog) : backlog[k] = backlog[l] => k = l

IInv == TypeOK /\ AcceptWhenServed /\ BacklogInTurn /\ ServedInTurn
=============================================================================
