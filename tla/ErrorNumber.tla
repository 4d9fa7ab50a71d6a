---------------------------- MODULE ErrorNumber ----------------------------
(***************************************************************************)
(* The error number of each thread, M_error.c, on the thread local storage *)
(* that Tls is shown to implement.  The number lives in a block that the   *)
(* thread takes from the heap when it first needs one and files under      *)
(* M_tls_err_key.  M_tls_set answers 0 when it has filed it, which         *)
(* get_tls_errno takes for a failure.                                      *)
(*                                                                         *)
(* Block is what malloc hands out; a freed block may be handed out again.  *)
(* The numbers M_ET_CLIB and M_ET_SOCKET, which stand for those of the C   *)
(* library and of the sockets, are left out of Errno.                      *)
(***************************************************************************)
EXTENDS Integers

CONSTANTS Thread, Block, Errno, NULL     \* -1 is no Errno, NULL no Block

VARIABLES made, dead, store, reading, answer,  \* the local storage, one key
          heap,     \* the blocks that are allocated
          word,     \* the number in each block
          pc,       \* where each thread is
          err_data, \* its local err_data
          told,     \* what its last M_geterrno returned
          set       \* the number it last set with success, 0 before that

tls == <<made, dead, store, reading, answer>>
vars == <<tls, heap, word, pc, err_data, told, set>>

M_tls_err_key == "M_tls_err_key"
Tls == INSTANCE LocalStore WITH Key <- {M_tls_err_key}, Value <- Block

\* M_error_init has made the key.
Init ==
    /\ made = {M_tls_err_key} /\ dead = {}
    /\ store = [t \in Thread |-> [k \in {M_tls_err_key} |-> NULL]]
    /\ reading = {}
    /\ answer = [t \in Thread |-> NULL]
    /\ heap = {} /\ word \in [Block -> {0}]
    /\ pc = [t \in Thread |-> "out"]
    /\ err_data = [t \in Thread |-> NULL]
    /\ told = [t \in Thread |-> 0] /\ set = [t \in Thread |-> 0]

Goto(t, loc) == pc' = [pc EXCEPT ![t] = loc]

\* get_tls_errno: the block the thread has filed.
Call(t) ==
    /\ pc[t] = "out"
    /\ Tls!Find(t, M_tls_err_key)
    /\ err_data' = [err_data EXCEPT ![t] = NULL]
    /\ Goto(t, IF store[t][M_tls_err_key] = NULL THEN "malloc" ELSE "read")
    /\ UNCHANGED <<heap, word, told, set>>

ReadBlock(t) ==
    /\ pc[t] = "read"
    /\ Tls!Read(t, M_tls_err_key)
    /\ err_data' = [err_data EXCEPT ![t] = answer'[t]]
    /\ Goto(t, "use")
    /\ UNCHANGED <<heap, word, told, set>>

\* Without one: a new block, set to 0; the call fails when there is none.
Malloc(t) ==
    /\ pc[t] = "malloc"
    /\ \/ \E b \in Block \ heap :
              /\ heap' = heap \cup {b}
              /\ word' = [word EXCEPT ![b] = 0]
              /\ err_data' = [err_data EXCEPT ![t] = b]
              /\ Goto(t, "file")
       \/ /\ Goto(t, "use")
          /\ UNCHANGED <<heap, word, err_data>>
    /\ UNCHANGED <<tls, told, set>>

\* What get_tls_errno makes of the answer of M_tls_set: 0 when it has filed
\* the block, -1 when the key is gone.
Taken(ret) == ret # 0

File(t) ==
    /\ pc[t] = "file"
    /\ \/ /\ Tls!Set(t, M_tls_err_key, err_data[t])
          /\ Goto(t, IF Taken(0) THEN "use" ELSE "free")
       \/ /\ M_tls_err_key \in dead
          /\ Goto(t, IF Taken(-1) THEN "use" ELSE "free")
          /\ UNCHANGED tls
    /\ UNCHANGED <<heap, word, err_data, told, set>>

Free(t) ==
    /\ pc[t] = "free"
    /\ heap' = heap \ {err_data[t]}
    /\ err_data' = [err_data EXCEPT ![t] = NULL]
    /\ Goto(t, "use")
    /\ UNCHANGED <<tls, word, told, set>>

\* The rest of M_seterrno and of M_geterrno: -1 without a block.
SetErrno(t) ==
    /\ pc[t] = "use"
    /\ \/ /\ err_data[t] # NULL
          /\ \E e \in Errno : /\ word' = [word EXCEPT ![err_data[t]] = e]
                              /\ set' = [set EXCEPT ![t] = e]
       \/ err_data[t] = NULL /\ UNCHANGED <<word, set>>
    /\ Goto(t, "out")
    /\ UNCHANGED <<tls, heap, err_data, told>>

GetErrno(t) ==
    /\ pc[t] = "use"
    /\ told' = [told EXCEPT ![t] =
                  IF err_data[t] # NULL THEN word[err_data[t]] ELSE -1]
    /\ Goto(t, "out")
    /\ UNCHANGED <<tls, heap, word, err_data, set>>

\* M_error_destroy, outside every call: the destroyer of the values is free.
Destroy ==
    /\ \A t \in Thread : pc[t] = "out"
    /\ heap' = heap \ {store[t][M_tls_err_key] : t \in Thread}
    /\ Tls!Delete(M_tls_err_key)
    /\ UNCHANGED <<word, pc, err_data, told, set>>

Next == \/ Destroy
        \/ \E t \in Thread : \/ Call(t) \/ ReadBlock(t) \/ Malloc(t)
                              \/ File(t) \/ Free(t)
                              \/ SetErrno(t) \/ GetErrno(t)

Spec == Init /\ [][Next]_vars
-----------------------------------------------------------------------------
\* M_error.c:2 promises an error number of its own for each thread: what
\* M_geterrno tells a thread is what that thread set, or -1 for want of memory,
\* whatever the others do, until M_error_destroy.
EachThreadItsOwn ==
    [][\A t \in Thread :
         dead = {} /\ GetErrno(t) => told'[t] \in {set[t], -1}]_vars
=============================================================================
