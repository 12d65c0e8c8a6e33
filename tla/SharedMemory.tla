---------------------------- MODULE SharedMemory ----------------------------
(***************************************************************************)
(* The POSIX shared memory producer and consumer of chapter 3, any number  *)
(* of each at the same time.  A segment lives on under its descriptors     *)
(* when its name has been removed.  Every producer writes the same         *)
(* characters to the same places, so a place of the segment holds either   *)
(* its character of the message or a NUL.                                  *)
(***************************************************************************)
EXTENDS Integers, Sequences

CONSTANTS
  Producers, Consumers,
  Ends          \* the places where message0, message1 and message2 end

(* The length of the three messages together *)
Length == CHOOSE e \in Ends : \A d \in Ends : d <= e
Places == 1 .. (Length + 1)
None == 0

VARIABLES
  shm_name,     \* the segment called "OS", or None
  segments,     \* each segment: is it sized, which places hold their character
  shm_pc,       \* where each process is
  shm_fd,       \* the segment each process opened
  shm_ptr,      \* the next place each process writes or prints
  undisturbed,  \* consumers that opened a complete segment nobody rewrote since
  removed       \* the segment that each consumer's shm_unlink removed

vars == <<shm_name, segments, shm_pc, shm_fd, shm_ptr, undisturbed, removed>>

Processes == Producers \cup Consumers

Init ==
  /\ shm_name = None /\ segments = << >>
  /\ shm_pc = [p \in Processes |-> "open"]
  /\ shm_fd = [p \in Processes |-> None]
  /\ shm_ptr = [p \in Processes |-> 1]
  /\ undisturbed = {} /\ removed = [c \in Consumers |-> None]

Goto(p, from, to) == shm_pc[p] = from /\ shm_pc' = [shm_pc EXCEPT ![p] = to]

(* Mutant: the producer first removes a segment that is left over. *)
CreateAnew(p) ==
  /\ Goto(p, "open", "truncate")
  /\ segments' = Append(segments, [sized |-> FALSE,
                                   text |-> [k \in Places |-> FALSE]])
  /\ shm_name' = Len(segments')
  /\ shm_fd' = [shm_fd EXCEPT ![p] = shm_name']
  /\ UNCHANGED <<shm_ptr, undisturbed, removed>>

(* shm_open with O_CREAT: a segment that has the name is used again. *)
Create(p) ==
  /\ Goto(p, "open", "truncate")
  /\ IF shm_name = None
     THEN /\ segments' = Append(segments, [sized |-> FALSE,
                                           text |-> [k \in Places |-> FALSE]])
          /\ shm_name' = Len(segments')
     ELSE UNCHANGED <<shm_name, segments>>
  /\ shm_fd' = [shm_fd EXCEPT ![p] = shm_name']
  /\ undisturbed' = {c \in undisturbed : shm_fd[c] # shm_name'}
  /\ UNCHANGED <<shm_ptr, removed>>

(* ftruncate; a segment that has its size already keeps its contents. *)
Truncate(p) ==
  /\ Goto(p, "truncate", "write")
  /\ segments' = [segments EXCEPT ![shm_fd[p]].sized = TRUE]
  /\ UNCHANGED <<shm_name, shm_fd, shm_ptr, undisturbed, removed>>

(* shm_open (whose result the producer does not look at) or mmap failed. *)
ProducerFails(p) ==
  /\ shm_pc[p] \in {"open", "write"} /\ shm_ptr[p] = 1
  /\ shm_pc' = [shm_pc EXCEPT ![p] = "failed"]
  /\ UNCHANGED <<shm_name, segments, shm_fd, shm_ptr, undisturbed, removed>>

(* sprintf stores a character of a message *)
WriteChar(p) ==
  LET k == shm_ptr[p] IN
  /\ Goto(p, "write", IF k \in Ends THEN "terminate" ELSE "write")
  /\ segments' = [segments EXCEPT ![shm_fd[p]].text[k] = TRUE]
  /\ shm_ptr' = [shm_ptr EXCEPT ![p] = k + 1]
  /\ UNCHANGED <<shm_name, shm_fd, undisturbed, removed>>

(* Mutant: sizeof instead of strlen, the next message follows the NUL. *)
WriteNulAndSkip(p) ==
  LET k == shm_ptr[p] IN
  /\ Goto(p, "terminate", IF k >= Length THEN "done" ELSE "write")
  /\ segments' = [segments EXCEPT ![shm_fd[p]].text[k] = FALSE]
  /\ shm_ptr' = [shm_ptr EXCEPT ![p] = k + 1]
  /\ UNCHANGED <<shm_name, shm_fd, undisturbed, removed>>

(* sprintf ends a message with a NUL; the next one starts in its place. *)
WriteNul(p) ==
  LET k == shm_ptr[p] IN
  /\ Goto(p, "terminate", IF k > Length THEN "done" ELSE "write")
  /\ segments' = [segments EXCEPT ![shm_fd[p]].text[k] = FALSE]
  /\ UNCHANGED <<shm_name, shm_fd, shm_ptr, undisturbed, removed>>

(* shm_open of the consumer *)
Open(c) ==
  /\ Goto(c, "open", IF shm_name = None THEN "failed" ELSE "print")
  /\ shm_fd' = [shm_fd EXCEPT ![c] = shm_name]
  /\ LET writers == {p \in Producers : shm_name # None /\ shm_fd[p] = shm_name} IN
     undisturbed' =
       IF writers # {} /\ \A p \in writers : shm_pc[p] = "done"
       THEN undisturbed \cup {c} ELSE undisturbed
  /\ UNCHANGED <<shm_name, segments, shm_ptr, removed>>

(* mmap of the consumer failed. *)
ConsumerFails(c) ==
  /\ Goto(c, "print", "failed") /\ shm_ptr[c] = 1
  /\ UNCHANGED <<shm_name, segments, shm_fd, shm_ptr, undisturbed, removed>>

(* printf reads a character; SIGBUS ends the process if the segment has    *)
(* no size yet.                                                            *)
ReadChar(c) ==
  LET segment == segments[shm_fd[c]] IN
  /\ shm_pc[c] = "print"
  /\ IF segment.sized /\ segment.text[shm_ptr[c]]
     THEN /\ shm_ptr' = [shm_ptr EXCEPT ![c] = @ + 1]
          /\ UNCHANGED shm_pc
     ELSE /\ shm_pc' = [shm_pc EXCEPT
                          ![c] = IF segment.sized THEN "unlink" ELSE "failed"]
          /\ UNCHANGED shm_ptr
  /\ UNCHANGED <<shm_name, segments, shm_fd, undisturbed, removed>>

(* shm_unlink removes the name, whichever segment it stands for now. *)
Unlink(c) ==
  /\ Goto(c, "unlink", IF shm_name = None THEN "failed" ELSE "done")
  /\ removed' = [removed EXCEPT ![c] = shm_name]
  /\ shm_name' = None
  /\ UNCHANGED <<segments, shm_fd, shm_ptr, undisturbed>>

Producer(p) ==
  Create(p) \/ Truncate(p) \/ ProducerFails(p) \/ WriteChar(p) \/ WriteNul(p)
Consumer(c) == Open(c) \/ ConsumerFails(c) \/ ReadChar(c) \/ Unlink(c)

Next == (\E p \in Producers : Producer(p)) \/ (\E c \in Consumers : Consumer(c))

Spec == Init /\ [][Next]_vars

-----------------------------------------------------------------------------
(* Properties *)

(* A consumer that opened the segment after its producers had ended, with  *)
(* no other producer opening it since, has printed the whole message when  *)
(* it comes to shm_unlink.                                                 *)
WholeMessage ==
  \A c \in undisturbed : shm_pc[c] \in {"unlink", "done"} => shm_ptr[c] = Length + 1

(* A consumer's shm_unlink removes whatever has the name by then.  That is *)
(* the segment it printed, unless another consumer has overtaken it and    *)
(* removed that one before: a producer never takes the name away from a    *)
(* segment.  And no two consumers remove the same segment.                 *)
RemovesOwnUnlessOvertaken ==
  \A c \in Consumers : removed[c] # None =>
    /\ removed[c] # shm_fd[c] =>
         \E d \in Consumers \ {c} : removed[d] = shm_fd[c]
    /\ \A d \in Consumers \ {c} : removed[d] # removed[c]

-----------------------------------------------------------------------------
(* The inductive invariant *)

Segment == [sized : BOOLEAN, text : [Places -> BOOLEAN]]

TypeOK ==
  /\ segments \in Seq(Segment)
  /\ shm_name \in 0 .. Len(segments)
  /\ shm_pc \in [Processes -> {"open", "truncate", "write", "terminate", "print",
                               "unlink", "done", "failed"}]
  /\ shm_fd \in [Processes -> 0 .. Len(segments)]
  /\ shm_ptr \in [Processes -> Places]
  /\ undisturbed \subseteq Consumers
  /\ removed \in [Consumers -> 0 .. Len(segments)]

(* Where a producer is when it has its descriptor and its pointer. *)
ProducerInStep(p) ==
  /\ shm_pc[p] \notin {"print", "unlink"}
  /\ shm_pc[p] \in {"truncate", "write", "terminate", "done"} => shm_fd[p] # None
  /\ shm_pc[p] \in {"open", "truncate", "failed"} => shm_ptr[p] = 1
  /\ shm_pc[p] = "write" => shm_ptr[p] <= Length
  /\ shm_pc[p] = "terminate" => shm_ptr[p] > 1
  /\ shm_pc[p] = "done" => shm_ptr[p] = Length + 1
  /\ shm_pc[p] \in {"write", "terminate", "done"} => segments[shm_fd[p]].sized

ProducersInStep == \A p \in Producers : ProducerInStep(p)

(* The same for a consumer. *)
ConsumersInStep ==
  \A c \in Consumers :
    /\ shm_pc[c] \notin {"truncate", "write", "terminate"}
    /\ shm_pc[c] \in {"print", "unlink", "done"} => shm_fd[c] # None
    /\ removed[c] # None => shm_pc[c] = "done"

(* A place that a producer has written holds its character, or another     *)
(* producer has ended a message there and is about to go on from there.    *)
TextWritten ==
  \A n \in 1 .. Len(segments) :
    /\ ~segments[n].text[Length + 1]
    /\ \A k \in 1 .. Length : \A p \in Producers :
         shm_fd[p] = n /\ shm_ptr[p] > k =>
           \/ segments[n].text[k]
           \/ k > 1 /\ \E q \in Producers :
                shm_fd[q] = n /\ shm_pc[q] = "write" /\ shm_ptr[q] = k

(* The producers of an undisturbed consumer's segment have ended. *)
ProducersEnded ==
  \A c \in undisturbed :
    /\ shm_fd[c] # None /\ shm_pc[c] # "open"
    /\ \E p \in Producers : shm_fd[p] = shm_fd[c]
    /\ \A p \in Producers : shm_fd[p] = shm_fd[c] => shm_pc[p] = "done"

(* A segment has the name, or a consumer has removed it and no other. *)
NamedOrRemoved ==
  /\ \A n \in 1 .. Len(segments) :
       n = shm_name \/ \E c \in Consumers : removed[c] = n
  /\ \A c \in Consumers : removed[c] # None => removed[c] # shm_name

IInv ==
  /\ TypeOK /\ ProducersInStep /\ ConsumersInStep /\ TextWritten
  /\ ProducersEnded /\ NamedOrRemoved /\ WholeMessage
  /\ RemovesOwnUnlessOvertaken
=============================================================================
