---------------------------- MODULE Descriptors -----------------------------
(***************************************************************************)
(* The two descriptor tables of the socket phase, each a program of its    *)
(* own: the readiness table behind the mock select() and poll()            *)
(* (phases/05-sockets-io-models/05-select-and-poll/selectpoll.c), whose    *)
(* specification is SpInit and SpNext, and the mock descriptors with a     *)
(* read buffer (04-blocking-vs-nonblocking/nonblock.c), NbInit and NbNext. *)
(* A number is handed out once, so a closed descriptor stays closed.       *)
(***************************************************************************)
EXTENDS Naturals, Sequences, FiniteSets, FiniteSetsExt

CONSTANTS
    MaxFds,     \* NFS_SP_MAX_FDS, NFS_NB_MAX_FDS
    BufSize,    \* NFS_NB_BUF_SIZE
    MaxBytes,   \* bound: bytes injected into a descriptor
    MaxWritten  \* bound: bytes written to a descriptor

DescriptorsConstants ==
    /\ MaxFds \in Nat /\ BufSize \in Nat \ {0}
    /\ MaxBytes \in Nat /\ MaxWritten \in Nat

VARIABLES
    sp_next, sp_active, ready_events,                  \* struct nfs_sp_ctx
    nb_next, nb_active, nonblocking, readable,         \* struct nfs_nb_ctx
    writable, read_buf, read_total, write_total,
    injected, consumed   \* history: bytes taken in, bytes read, per descriptor

spVars == <<sp_next, sp_active, ready_events>>
nbVars == <<nb_next, nb_active, nonblocking, readable, writable, read_buf,
            read_total, write_total, injected, consumed>>

Fds == 0..(MaxFds - 1)
Events == {"POLLIN", "POLLOUT", "POLLERR", "POLLHUP"}

-----------------------------------------------------------------------------
(***************************************************************************)
(* selectpoll.c.                                                           *)
(***************************************************************************)
SpInit ==
    /\ sp_next = 0 /\ sp_active = {}
    /\ ready_events = [fd \in Fds |-> {}]

SpOpen ==
    /\ sp_next < MaxFds
    /\ sp_next' = sp_next + 1
    /\ sp_active' = sp_active \cup {sp_next}
    /\ ready_events' = [ready_events EXCEPT ![sp_next] = {}]

SpClose(fd) ==
    /\ fd \in sp_active
    /\ sp_active' = sp_active \ {fd}
    /\ ready_events' = [ready_events EXCEPT ![fd] = {}]
    /\ UNCHANGED sp_next

SetReady(fd, events) ==
    /\ fd \in sp_active
    /\ ready_events' = [ready_events EXCEPT ![fd] = @ \cup events]
    /\ UNCHANGED <<sp_next, sp_active>>

ClearReady(fd, events) ==
    /\ fd \in sp_active
    /\ ready_events' = [ready_events EXCEPT ![fd] = @ \ events]
    /\ UNCHANGED <<sp_next, sp_active>>

SpNext ==
    \/ SpOpen
    \/ \E fd \in Fds : SpClose(fd)
    \/ \E fd \in Fds, events \in SUBSET Events : SetReady(fd, events)
    \/ \E fd \in Fds, events \in SUBSET Events : ClearReady(fd, events)

\* The descriptors below nfds that are open and for which e is ready.
ReadyIn(set, nfds, e) ==
    {fd \in set : fd < nfds /\ fd \in sp_active /\ e \in ready_events[fd]}

\* nfs_select: the two result sets and the number of descriptors in them.
Select(nfds, readfds, writefds) ==
    LET r == ReadyIn(readfds, nfds, "POLLIN")
        w == ReadyIn(writefds, nfds, "POLLOUT")
    IN [read |-> r, write |-> w, count |-> Cardinality(r \cup w)]

\* Mutant: a hangup is reported to those who ask for it only.
OnlyErrorsReported == {"POLLERR"}

\* POLLERR and POLLHUP are reported unasked.
AlwaysReported == {"POLLERR", "POLLHUP"}

\* nfs_poll for one descriptor: revents.
Poll(fd, events) ==
    IF fd >= MaxFds \/ fd \notin sp_active THEN {"POLLNVAL"}
    ELSE ready_events[fd] \cap (events \cup AlwaysReported)

-----------------------------------------------------------------------------
(***************************************************************************)
(* nonblock.c.  Bytes are numbered as they are taken in.                   *)
(***************************************************************************)
NbInit ==
    /\ nb_next = 0 /\ nb_active = {}
    /\ nonblocking = [fd \in Fds |-> FALSE]
    /\ readable = [fd \in Fds |-> FALSE]
    /\ writable = [fd \in Fds |-> FALSE]
    /\ read_buf = [fd \in Fds |-> <<>>]
    /\ read_total = [fd \in Fds |-> 0]
    /\ write_total = [fd \in Fds |-> 0]
    /\ injected = [fd \in Fds |-> 0]
    /\ consumed = [fd \in Fds |-> <<>>]

\* nfs_nb_open: a descriptor starts blocking, writable and empty.
NbOpen ==
    /\ nb_next < MaxFds
    /\ nb_next' = nb_next + 1
    /\ nb_active' = nb_active \cup {nb_next}
    /\ nonblocking' = [nonblocking EXCEPT ![nb_next] = FALSE]
    /\ readable' = [readable EXCEPT ![nb_next] = FALSE]
    /\ writable' = [writable EXCEPT ![nb_next] = TRUE]
    /\ read_buf' = [read_buf EXCEPT ![nb_next] = <<>>]
    /\ read_total' = [read_total EXCEPT ![nb_next] = 0]
    /\ write_total' = [write_total EXCEPT ![nb_next] = 0]
    /\ UNCHANGED <<injected, consumed>>

\* nfs_nb_close: the rest of the entry is left as it is.
NbClose(fd) ==
    /\ fd \in nb_active
    /\ nb_active' = nb_active \ {fd}
    /\ UNCHANGED <<nb_next, nonblocking, readable, writable, read_buf, read_total,
                   write_total, injected, consumed>>

SetNonblock(fd, nonblock) ==
    /\ fd \in nb_active
    /\ nonblocking' = [nonblocking EXCEPT ![fd] = nonblock]
    /\ UNCHANGED <<nb_next, nb_active, readable, writable, read_buf, read_total,
                   write_total, injected, consumed>>

SetWritable(fd, can) ==
    /\ fd \in nb_active
    /\ writable' = [writable EXCEPT ![fd] = can]
    /\ UNCHANGED <<nb_next, nb_active, nonblocking, readable, read_buf, read_total,
                   write_total, injected, consumed>>

\* Only what fits is taken.
Taken(fd, len) == Min({len, BufSize - Len(read_buf[fd])})

\* nfs_nb_inject_readable; with a full buffer nothing changes.
Inject(fd, len) ==
    LET n == Taken(fd, len)
        bytes == [i \in 1..n |-> injected[fd] + i]
    IN
    /\ fd \in nb_active /\ injected[fd] + n <= MaxBytes
    /\ n > 0
    /\ read_buf' = [read_buf EXCEPT ![fd] = @ \o bytes]
    /\ readable' = [readable EXCEPT ![fd] = TRUE]
    /\ injected' = [injected EXCEPT ![fd] = @ + n]
    /\ UNCHANGED <<nb_next, nb_active, nonblocking, writable, read_total,
                   write_total, consumed>>

\* The answer of nfs_nb_read before any byte is copied.  nfs_nb_read_retry
\* asks again while it is EAGAIN, and nothing changes in between.
ReadAnswer(fd) ==
    CASE fd \notin Fds -> "EBADF"
      [] fd \in Fds /\ fd \notin nb_active -> "CLOSED"
      [] fd \in nb_active /\ read_buf[fd] = <<>> -> "EAGAIN"
      [] OTHER -> "OK"

\* Mutant: reading takes the readiness away although bytes are left.
StillReadableNever(fd, n) == FALSE

\* readable = (remaining > 0)
StillReadable(fd, n) == n < Len(read_buf[fd])

\* nfs_nb_read and nfs_nb_read_retry of up to max bytes.
Read(fd, max) ==
    LET n == Min({max, Len(read_buf[fd])})
    IN
    /\ ReadAnswer(fd) = "OK"
    /\ consumed' = [consumed EXCEPT ![fd] = @ \o SubSeq(read_buf[fd], 1, n)]
    /\ read_buf' = [read_buf EXCEPT ![fd] = SubSeq(@, n + 1, Len(@))]
    /\ readable' = [readable EXCEPT ![fd] = StillReadable(fd, n)]
    /\ read_total' = [read_total EXCEPT ![fd] = @ + n]
    /\ UNCHANGED <<nb_next, nb_active, nonblocking, writable, write_total, injected>>

\* nfs_nb_write; EAGAIN unless writable, and all bytes are accepted.
Write(fd, len) ==
    /\ fd \in nb_active /\ writable[fd]
    /\ write_total[fd] + len <= MaxWritten
    /\ write_total' = [write_total EXCEPT ![fd] = @ + len]
    /\ UNCHANGED <<nb_next, nb_active, nonblocking, readable, writable, read_buf,
                   read_total, injected, consumed>>

\* nfs_nb_would_block.
WouldBlock(fd) == fd \in nb_active /\ nonblocking[fd] /\ read_buf[fd] = <<>>

NbNext ==
    \/ NbOpen
    \/ \E fd \in Fds : NbClose(fd)
    \/ \E fd \in Fds, flag \in BOOLEAN : SetNonblock(fd, flag)
    \/ \E fd \in Fds, flag \in BOOLEAN : SetWritable(fd, flag)
    \/ \E fd \in Fds, len \in 1..2 : Inject(fd, len)
    \/ \E fd \in Fds, len \in 1..2 : Read(fd, len)
    \/ \E fd \in Fds : Write(fd, 1)

-----------------------------------------------------------------------------
SpTypeOK ==
    /\ sp_next \in 0..MaxFds /\ sp_active \subseteq 0..(sp_next - 1)
    /\ ready_events \in [Fds -> SUBSET Events]

NbTypeOK ==
    /\ nb_next \in 0..MaxFds /\ nb_active \subseteq 0..(nb_next - 1)
    /\ \A fd \in Fds : Len(read_buf[fd]) <= BufSize /\ read_total[fd] = Len(consumed[fd])

\* select() and poll() tell a caller the same about an open descriptor, also
\* after others were closed, neither reports a closed one as ready, and poll
\* keeps no error and no hangup from it.
SelectAgreesWithPoll ==
    \A fd \in Fds, readfds, writefds \in SUBSET Fds, nfds \in 0..MaxFds :
        LET result == Select(nfds, readfds, writefds)
            wanted == (IF fd \in readfds THEN {"POLLIN"} ELSE {})
                      \cup (IF fd \in writefds THEN {"POLLOUT"} ELSE {})
            revents == Poll(fd, wanted)
        IN /\ fd \in result.read <=> fd < nfds /\ "POLLIN" \in revents
           /\ fd \in result.write <=> fd < nfds /\ "POLLOUT" \in revents
           /\ fd \in sp_active => ready_events[fd] \cap {"POLLERR", "POLLHUP"} \subseteq revents

\* The flag of a descriptor and its buffer agree, so that who waits until it is
\* readable neither sleeps on data nor is woken to EAGAIN, and
\* nfs_nb_would_block foretells the answer of a read.
ReadableMeansBytes ==
    \A fd \in nb_active :
        /\ readable[fd] <=> ReadAnswer(fd) = "OK"
        /\ nonblocking[fd] => (WouldBlock(fd) <=> ReadAnswer(fd) = "EAGAIN")

\* Bytes are read in the order they came, none twice and none missing.
BytesAreReadInOrder ==
    \A fd \in Fds : consumed[fd] \o read_buf[fd] = [i \in 1..injected[fd] |-> i]
=============================================================================
