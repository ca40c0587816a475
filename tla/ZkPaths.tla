------------------------------- MODULE ZkPaths ------------------------------
(***************************************************************************)
(* Paths of nodes and the chroot of a handle, zookeeper.c.  A path is a    *)
(* sequence of characters.  A handle without a chroot has NoChroot.        *)
(***************************************************************************)
EXTENDS Integers, Sequences

CONSTANT Control      \* a character from 1 to 30

ASSUME ControlAssumption == Control \in STRING \ {"/", ".", "1"}

NoChroot == <<>>

EndsAlways(path, i, sequence) ==     \* (faulty: a sequential node is like any other)
    IF i = Len(path) THEN TRUE ELSE path[i + 1] = "/"

(* What stops the loop of isValidPath() at the i-th character.  A "." or ".."
   may end a path only if the server is going to append a number to it. *)
EndsComponent(path, i, sequence) ==
    IF i = Len(path) THEN ~sequence ELSE path[i + 1] = "/"

Rejects(path, i, sequence) ==
    LET c == path[i]
        lastc == path[i - 1]
    IN  \/ c = "/" /\ lastc = "/"
        \/ c = "." /\ lastc = "." /\ path[i - 2] = "/" /\ EndsComponent(path, i, sequence)
        \/ c = "." /\ lastc = "/" /\ EndsComponent(path, i, sequence)
        \/ c = Control

isValidPath(path, sequence) ==
    /\ path # <<>> /\ path[1] = "/"
    /\ Len(path) > 1 =>
        /\ path[Len(path)] = "/" => sequence
        /\ \A i \in 2..Len(path) : ~Rejects(path, i, sequence)

(* The path as the server knows it.  Of a client path only the length is
   looked at: any path of one character stands for the chroot itself. *)
prepend_string(chroot, client_path) ==
    IF chroot = NoChroot THEN client_path
    ELSE IF Len(client_path) = 1 THEN chroot
    ELSE chroot \o client_path

IsPrefixOf(s, t) == Len(s) <= Len(t) /\ SubSeq(t, 1, Len(s)) = s

(* And back: only the characters are compared, not the components. *)
sub_string(chroot, server_path) ==
    IF chroot = NoChroot \/ ~IsPrefixOf(chroot, server_path) THEN server_path
    ELSE IF Len(server_path) = Len(chroot) THEN <<"/">>
    ELSE SubSeq(server_path, Len(chroot) + 1, Len(server_path))

(* zookeeper_init(): the connect string from its first "/" on; a lone "/" is
   no chroot. *)
ChrootOf(suffix) == IF Len(suffix) <= 1 THEN NoChroot ELSE suffix

(* ------------------------- what a valid path is ------------------------ *)

(* The components between the slashes of a path. *)
Components(path) ==
    LET closed == Append(path, "/")
        Slash(i) == closed[i] = "/"
    IN  {SubSeq(path, b[1] + 1, b[2] - 1) :
            b \in {b \in (1..Len(closed)) \X (1..Len(closed)) :
                    /\ b[1] < b[2] /\ Slash(b[1]) /\ Slash(b[2])
                    /\ \A i \in (b[1] + 1)..(b[2] - 1) : ~Slash(i)}}

WellFormed(path) ==
    /\ path # <<>> /\ path[1] = "/"
    /\ path = <<"/">> \/ \A c \in Components(path) :
        /\ c \notin {<<>>, <<".">>, <<".", ".">>}
        /\ \A i \in DOMAIN c : c[i] # Control

(* A sequential node is created under its path and a number. *)
WellFormedFor(path, sequence) ==
    IF sequence THEN WellFormed(Append(path, "1")) ELSE WellFormed(path)
=============================================================================
