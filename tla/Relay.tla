------------------------------- MODULE Relay --------------------------------
(***************************************************************************)
(* The two programs that stand between the simulator and its console:      *)
(* utils/squish-pty.c, which gives its child a pseudoterminal, and         *)
(* utils/squish-unix.c, to whose socket the child connects, again after    *)
(* every reset.  Both copy stdin to the line and the line to stdout        *)
(* through two buffers; a step is one system call.  The bytes that the     *)
(* child writes are numbered.                                              *)
(***************************************************************************)
EXTENDS Integers, Sequences, SequencesExt

CONSTANTS BUFSIZ,
          Output,       \* bound: the bytes that the child writes
          Input         \* bound: the bytes on stdin

VARIABLES tool,         \* "pty" or "unix"
          at,           \* where the program is
          i,            \* relay()'s loop variable
          pipes,        \* pipes[0] is stdin to line, pipes[1] line to stdout
          fds,          \* the pipes that select() found readable and writable
          stdin,        \* what is left to read there
          stdout,
          line,         \* written by the child and not read yet
          closed,       \* the child's side of the line is closed
          received,     \* written to the line
          child,
          notice,       \* SIGCHLD has come: it is pending, or its byte is
                        \* in the pipe of dead_child_fd
          sent,         \* the bytes the child has written
          began,        \* those of them before this line was opened
          status,       \* what main() of squish-pty.c learns of the child
          timer         \* who the virtual interval timer of the caller runs for

vars == <<tool, at, i, pipes, fds, stdin, stdout, line, closed, received, child, notice, sent, began,
          status, timer>>
lineVars == <<line, closed, child, notice, sent, began, status, timer>>

Bytes(from, to) == [k \in 1 .. to - from + 1 |-> from + k - 1]
Numbers == {0, 1}

(* struct pipe, with size the length of buf; in and out are FALSE for -1.  *)
Pipe == [in |-> TRUE, out |-> TRUE, buf |-> <<>>, ofs |-> 0, active |-> FALSE]
Room(p) == BUFSIZ - p.ofs - Len(p.buf)

-----------------------------------------------------------------------------
(* The conditions of relay()'s loop, for a pseudoterminal and a socket.    *)
MorePty == pipes[1].in
MoreSocket == pipes[0].in \/ pipes[1].in \/ (pipes[1].buf # <<>> /\ pipes[1].out)

(* The descriptors that are put into read_fds and write_fds.  Input waits  *)
(* until there has been some output.                                       *)
Watched == {n \in Numbers : n = 0 => pipes[1].active}
read_fds == {n \in Watched : pipes[n].in /\ Room(pipes[n]) > 0}
write_fds == {n \in Watched : pipes[n].out /\ pipes[n].buf # <<>>}

(* select(): the line is readable when it holds something or is closed;    *)
(* the rest of the world is ready when it likes.                           *)
Select ==
  /\ at = "select"
  /\ \E r \in SUBSET read_fds, w \in SUBSET write_fds :
       /\ 1 \in r <=> 1 \in read_fds /\ (line # <<>> \/ closed)
       /\ r \cup w # {}
       /\ fds' = [read |-> r, write |-> w]
  /\ at' = "read" /\ i' = 0
  /\ UNCHANGED <<tool, pipes, stdin, stdout, received, lineVars>>

SelectPty == tool = "pty" /\ MorePty /\ ~notice /\ Select
SelectSocket == tool = "unix" /\ MoreSocket /\ Select

(* select() returns for dead_child_fd, or the loop has ended.              *)
LeavePty ==
  /\ tool = "pty" /\ at = "select"
  /\ notice \/ ~MorePty
  /\ at' = "final"
  /\ UNCHANGED <<tool, i, pipes, fds, stdin, stdout, received, lineVars>>

(* pselect() lets SIGCHLD in, and returns EINTR.                           *)
Interrupted ==
  /\ tool = "unix" /\ at = "select"
  /\ MoreSocket /\ notice
  /\ at' = "final"
  /\ UNCHANGED <<tool, i, pipes, fds, stdin, stdout, received, lineVars>>

-----------------------------------------------------------------------------
(* What read() makes of a buffer.  The condition for moving its contents,  *)
(* a size of BUFSIZ and an offset, never holds: Room is not negative.      *)
Filled(p, bytes) == [p EXCEPT !.active = TRUE, !.buf = @ \o bytes]

(* What write() of the first n bytes leaves of it.                         *)
Drained(p, n) ==
  LET rest == SubSeq(p.buf, n + 1, Len(p.buf))
  IN [p EXCEPT !.buf = rest, !.ofs = IF rest = <<>> THEN 0 ELSE @ + n]

Readable(n) == IF n = 0 THEN stdin ELSE line

ReadPipe ==
  /\ at = "read"
  /\ i \in fds.read => Readable(i) # <<>>
  /\ IF i \in fds.read
     THEN LET source == Readable(i)
              n == IF Len(source) < Room(pipes[i]) THEN Len(source) ELSE Room(pipes[i])
              rest == SubSeq(source, n + 1, Len(source))
          IN /\ pipes' = [pipes EXCEPT ![i] = Filled(@, SubSeq(source, 1, n))]
             /\ stdin' = IF i = 0 THEN rest ELSE stdin
             /\ line' = IF i = 1 THEN rest ELSE line
     ELSE UNCHANGED <<pipes, stdin, line>>
  /\ at' = "write"
  /\ UNCHANGED <<tool, i, fds, stdout, closed, received, child, notice, sent, began, status, timer>>

(* handle_error() after a read: EIO from the pseudoterminal, end of file   *)
(* from stdin.                                                             *)
HandleErrorPty ==
  /\ tool = "pty" /\ at = "read"
  /\ i \in fds.read /\ Readable(i) = <<>>
  /\ pipes' = [pipes EXCEPT ![i].in = FALSE]
  /\ at' = "write"
  /\ UNCHANGED <<tool, i, fds, stdin, stdout, received, lineVars>>

(* The same of squish-unix.c: the end of a connection ends relay(), and    *)
(* what is in the buffers is forgotten.                                    *)
HandleErrorSocket ==
  /\ tool = "unix" /\ at = "read"
  /\ i \in fds.read /\ Readable(i) = <<>>
  /\ pipes' = [pipes EXCEPT ![i].in = FALSE]
  /\ at' = IF i = 1 THEN "accept" ELSE "write"
  /\ UNCHANGED <<tool, i, fds, stdin, stdout, received, lineVars>>

(* After the second pipe the loop starts again.                            *)
Onward ==
  /\ i' = 1 - i
  /\ at' = IF i = 0 THEN "read" ELSE "select"

WritePipe ==
  /\ at = "write"
  /\ IF i \in fds.write /\ ~(i = 0 /\ closed)
     THEN \E n \in 1 .. Len(pipes[i].buf) :
            /\ pipes' = [pipes EXCEPT ![i] = Drained(@, n)]
            /\ received' = IF i = 0 THEN received \o SubSeq(pipes[i].buf, 1, n) ELSE received
            /\ stdout' = IF i = 1 THEN stdout \o SubSeq(pipes[i].buf, 1, n) ELSE stdout
     ELSE /\ i \notin fds.write
          /\ UNCHANGED <<pipes, received, stdout>>
  /\ Onward
  /\ UNCHANGED <<tool, fds, stdin, lineVars>>

(* A write to a closed pseudoterminal gives EIO.                           *)
WriteErrorPty ==
  /\ tool = "pty" /\ at = "write"
  /\ i = 0 /\ i \in fds.write /\ closed
  /\ pipes' = [pipes EXCEPT ![i].out = FALSE]
  /\ Onward
  /\ UNCHANGED <<tool, fds, stdin, stdout, received, lineVars>>

(* fail_io(): a write to a closed socket, any to stdout that fails, and    *)
(* every call of main() before the fork.                                   *)
fail_io ==
  /\ \/ at = "write" /\ i \in fds.write /\ (i = 1 \/ (tool = "unix" /\ closed))
     \/ at = "final" /\ pipes[1].buf # <<>>
     \/ at = "main"
  /\ at' = "failed"
  /\ UNCHANGED <<tool, i, pipes, fds, stdin, stdout, received, lineVars>>

(* One turn of the last loop of squish-pty.c, with stdout blocking: the    *)
(* buffer is written, and filled with what is left on the line.            *)
FinalPty ==
  LET n == IF Len(line) < BUFSIZ THEN Len(line) ELSE BUFSIZ IN
  /\ tool = "pty" /\ at = "final"
  /\ stdout' = stdout \o pipes[1].buf
  /\ pipes' = [pipes EXCEPT ![1] = [@ EXCEPT !.ofs = 0,
                                            !.buf = IF pipes[1].in THEN SubSeq(line, 1, n) ELSE <<>>]]
  /\ line' = IF pipes[1].in THEN SubSeq(line, n + 1, Len(line)) ELSE line
  /\ at' = IF pipes'[1].buf = <<>> THEN "wait" ELSE "final"
  /\ UNCHANGED <<tool, i, fds, stdin, closed, received, child, notice, sent, began, status, timer>>

(* waitpid() in main() of squish-pty.c, which does not block.              *)
WaitPid ==
  /\ at = "wait"
  /\ status' = child
  /\ at' = "done"
  /\ UNCHANGED <<tool, i, pipes, fds, stdin, stdout, received, line, closed, child, notice, sent, began, timer>>

(* The same of squish-unix.c, which then exits.                            *)
FinalSocket ==
  LET n == IF Len(line) < BUFSIZ THEN Len(line) ELSE BUFSIZ IN
  /\ tool = "unix" /\ at = "final"
  /\ stdout' = stdout \o pipes[1].buf
  /\ pipes' = [pipes EXCEPT ![1].ofs = 0, ![1].buf = SubSeq(line, 1, n)]
  /\ line' = SubSeq(line, n + 1, Len(line))
  /\ at' = IF pipes'[1].buf = <<>> THEN "done" ELSE "final"
  /\ UNCHANGED <<tool, i, fds, stdin, closed, received, child, notice, sent, began, status, timer>>

(* main() of squish-unix.c: a connection, for which stdin is read from the *)
(* start again ...                                                         *)
Accept ==
  /\ tool = "unix" /\ at = "accept" /\ child = "alive"
  /\ pipes' = [n \in Numbers |-> Pipe]
  /\ stdin' = Input /\ received' = <<>>
  /\ line' = <<>> /\ closed' = FALSE /\ began' = sent
  /\ at' = "select"
  /\ UNCHANGED <<tool, i, fds, stdout, child, notice, sent, status, timer>>

(* ... or the child's death while it waits for one.                        *)
AcceptInterrupted ==
  /\ tool = "unix" /\ at = "accept" /\ notice
  /\ at' = "done"
  /\ UNCHANGED <<tool, i, pipes, fds, stdin, stdout, received, lineVars>>

-----------------------------------------------------------------------------
(* main() of squish-pty.c up to the fork, with the line open, the timer    *)
(* stopped and the handler of SIGCHLD in place.                            *)
MainPty ==
  /\ tool = "pty" /\ at = "main"
  /\ timer' = "nobody" /\ child' = "forked"
  /\ closed' = FALSE /\ at' = "select"
  /\ UNCHANGED <<tool, i, pipes, fds, stdin, stdout, line, received, notice, sent, began, status>>

(* main() of squish-unix.c: it listens, and has SIGCHLD blocked.           *)
MainSocket ==
  /\ tool = "unix" /\ at = "main"
  /\ timer' = "nobody" /\ child' = "forked" /\ at' = "accept"
  /\ UNCHANGED <<tool, i, pipes, fds, stdin, stdout, line, closed, received, notice, sent, began, status>>

(* The child up to its program: squish-pty.c gives it the timer.           *)
ExecPty ==
  /\ tool = "pty" /\ child = "forked"
  /\ timer' = "child" /\ child' = "alive"
  /\ UNCHANGED <<tool, at, i, pipes, fds, stdin, stdout, line, closed, received, notice, sent, began, status>>

ExecSocket ==
  /\ tool = "unix" /\ child = "forked"
  /\ child' = "alive"
  /\ UNCHANGED <<tool, at, i, pipes, fds, stdin, stdout, line, closed, received, notice, sent, began, status, timer>>

-----------------------------------------------------------------------------
(* The child: it writes, closes the line or dies, which closes it too.     *)
Open == child = "alive" /\ ~closed
ChildWrites ==
  /\ Open /\ sent < Output
  /\ sent' = sent + 1
  /\ line' = Append(line, sent + 1)
  /\ UNCHANGED <<tool, at, i, pipes, fds, stdin, stdout, closed, received, child, notice, began, status, timer>>

ChildCloses ==
  /\ Open
  /\ closed' = TRUE
  /\ UNCHANGED <<tool, at, i, pipes, fds, stdin, stdout, line, received, child, notice, sent, began, status, timer>>

(* sigchld_handler() tells the program, also when there was none to        *)
(* execute.                                                                *)
sigchld_handler ==
  /\ child \in {"forked", "alive"}
  /\ child' = "dead" /\ closed' = TRUE /\ notice' = TRUE
  /\ UNCHANGED <<tool, at, i, pipes, fds, stdin, stdout, line, received, sent, began, status, timer>>

Init ==
  /\ tool \in {"pty", "unix"}
  /\ at = "main"
  /\ i = 0 /\ pipes = [n \in Numbers |-> Pipe] /\ fds = [read |-> {}, write |-> {}]
  /\ stdin = Input /\ stdout = <<>> /\ received = <<>>
  /\ line = <<>> /\ closed = TRUE
  /\ child = "none" /\ timer = "program" /\ notice = FALSE /\ sent = 0 /\ began = 0
  /\ status = "unknown"

Step ==
  \/ MainPty \/ MainSocket
  \/ SelectPty \/ SelectSocket \/ LeavePty \/ Interrupted
  \/ ReadPipe \/ HandleErrorPty \/ HandleErrorSocket
  \/ WritePipe \/ WriteErrorPty \/ fail_io
  \/ FinalPty \/ WaitPid \/ FinalSocket \/ Accept \/ AcceptInterrupted

Next == Step \/ ExecPty \/ ExecSocket \/ ChildWrites \/ ChildCloses \/ sigchld_handler

-----------------------------------------------------------------------------
(* relay() copies every byte once and in order, whatever select() finds    *)
(* ready and however little a write() takes: what the child has written    *)
(* since the line was opened is on stdout, in the buffer or on the line.   *)
(* Only the end of a connection forgets what squish-unix.c had buffered.   *)
(* Input is the start of stdin, and waits for output.                      *)
RelayFaithful ==
  /\ at \notin {"accept", "done"} \/ tool = "pty" =>
       SelectSeq(stdout, LAMBDA b : b > began) \o pipes[1].buf \o line = Bytes(began + 1, sent)
  /\ \A k \in 2 .. Len(stdout) : stdout[k - 1] < stdout[k]
  /\ received \o pipes[0].buf \o stdin = Input
  /\ received \o pipes[0].buf # <<>> => pipes[1].active
  /\ \A n \in Numbers : Room(pipes[n]) >= 0

(* When squish-pty.c has ended, everything its child wrote is on stdout,   *)
(* and unless the child closed the line first its end is passed on.  The   *)
(* child writes only under the limit on its time that the caller had set.  *)
NothingLeft ==
  /\ tool = "pty" /\ at = "done" =>
       /\ stdout = Bytes(1, sent)
       /\ pipes[1].in => status = "dead"
  /\ tool = "pty" /\ sent > 0 => timer = "child"

(* The relay ends when the child has died.                                 *)
RelayEnds == child = "dead" ~> at \in {"done", "failed"}
=============================================================================
