--------------------------- MODULE AccountsProofs ---------------------------
(***************************************************************************)
(* Proofs about Accounts: for any number of daemons started, killed and    *)
(* started again in any order, and any set of keys.                        *)
(***************************************************************************)
EXTENDS Accounts, TLAPS

(***************************************************************************)
(* Why a key that is told is valid.  A key leaves the process that drew it *)
(* by two ways, the file and the answer, and on both the commit of its     *)
(* project comes first.                                                    *)
(***************************************************************************)
Committed ==
  /\ told \subseteq projects
  /\ rootKey \in Keys => rootKey \in projects
  /\ \A d \in Daemons :
       /\ pc[d] \in {"open", "write"} => key[d] \in projects
       /\ post[d].op # "idle" => post[d].key \in Keys /\ projects # {}
       /\ post[d].op = "reply" => post[d].key \in projects

(***************************************************************************)
(* Why root.key is usable.  Only a daemon that has seen a project listens; *)
(* and as long as no daemon was cut off between the commit and the end of  *)
(* the write, a project without a key in the file has a writer on its way. *)
(***************************************************************************)
Writing(d) == pc[d] \in {"open", "write"}

Published ==
  /\ port # None => pc[port] = "serve"
  /\ \A d \in Daemons : pc[d] \in {"bind", "serve"} => projects # {}
  /\ ~cut /\ projects # {} /\ rootKey \notin Keys => \E d \in Daemons : Writing(d)

AccountsInv == TypeOK /\ Committed /\ Published

LEMMA InitAccounts == Init => AccountsInv
<1> SUFFICES ASSUME Init PROVE AccountsInv
  OBVIOUS
<1>1. Idle \in [op : {"idle", "commit", "reply"}, key : Keys \cup {None}]
  BY DEF Idle
<1>2. TypeOK
  BY <1>1 DEF Init, TypeOK
<1>3. Committed
  BY AccountsAssumption DEF Init, Committed, Idle
<1>4. Published
  BY DEF Init, Published
<1> QED BY <1>2, <1>3, <1>4 DEF AccountsInv

(* What a program counter is after d has moved to l. *)
LEMMA GotoReads ==
  ASSUME TypeOK, NEW d \in Daemons, NEW l, Goto(d, l)
  PROVE  \A e \in Daemons : pc'[e] = IF e = d THEN l ELSE pc[e]
  BY DEF TypeOK, Goto

LEMMA ServeStep ==
  ASSUME AccountsInv, NEW d \in Daemons, Serve(d)
  PROVE  AccountsInv'
<1>0. TypeOK /\ Committed /\ Published
  BY DEF AccountsInv
<1>1. CASE StartDaemon(d)
  <2>1. TypeOK'
    BY <1>0, <1>1 DEF StartDaemon, Goto, TypeOK
  <2>2. /\ \A e \in Daemons : pc'[e] = IF e = d THEN "select" ELSE pc[e]
        /\ pc[d] = "off"
        /\ UNCHANGED <<projects, rootKey, port, key, post, drawn, told, cut>>
    BY <1>0, <1>1, GotoReads DEF StartDaemon, At
  <2>3. Committed'
    BY <1>0, <2>2 DEF Committed
  <2>4. Published'
    BY <1>0, <2>2 DEF Published, Writing, TypeOK
  <2> QED BY <2>1, <2>3, <2>4 DEF AccountsInv
<1>2. CASE SelectProject(d)
  <2>1. TypeOK'
    BY <1>0, <1>2 DEF SelectProject, Goto, TypeOK, Bootstrap
  <2>2. /\ \A e \in Daemons :
             pc'[e] = IF e = d THEN IF projects = {} THEN "insert" ELSE "bind" ELSE pc[e]
        /\ pc[d] = "select"
        /\ UNCHANGED <<projects, rootKey, port, key, post, drawn, told, cut>>
    BY <1>0, <1>2, GotoReads DEF SelectProject, At
  <2>3. Committed'
    BY <1>0, <2>2 DEF Committed
  <2>4. Published'
    BY <1>0, <2>2 DEF Published, Writing, TypeOK
  <2> QED BY <2>1, <2>3, <2>4 DEF AccountsInv
<1>3. ASSUME NEW k \in Keys, InsertDefault(d, k) PROVE AccountsInv'
  <2>1. TypeOK'
    BY <1>0, <1>3 DEF InsertDefault, Goto, TypeOK, Bootstrap
  <2>2. /\ \A e \in Daemons : pc'[e] = IF e = d THEN "open" ELSE pc[e]
        /\ pc[d] = "insert"
        /\ \A e \in Daemons : key'[e] = IF e = d THEN k ELSE key[e]
        /\ projects' = projects \cup {k}
        /\ UNCHANGED <<rootKey, port, post, told, cut>>
    BY <1>0, <1>3, GotoReads DEF InsertDefault, At, TypeOK
  <2>3. Committed'
    BY <1>0, <2>2 DEF Committed
  <2>4. Published'
    BY <1>0, <2>2 DEF Published, Writing, TypeOK
  <2> QED BY <2>1, <2>3, <2>4 DEF AccountsInv
<1>4. CASE OpenRootKey(d)
  <2>1. TypeOK'
    BY <1>0, <1>4 DEF OpenRootKey, Goto, TypeOK, Bootstrap
  <2>2. /\ \A e \in Daemons : pc'[e] = IF e = d THEN "write" ELSE pc[e]
        /\ pc[d] = "open"
        /\ rootKey' = "empty"
        /\ UNCHANGED <<projects, port, key, post, told, cut>>
    BY <1>0, <1>4, GotoReads DEF OpenRootKey, At
  <2>3. Committed'
    BY <1>0, <2>2, AccountsAssumption DEF Committed
  <2>4. Published'
    BY <1>0, <2>2 DEF Published, Writing, TypeOK
  <2> QED BY <2>1, <2>3, <2>4 DEF AccountsInv
<1>5. CASE WriteRootKey(d)
  <2>0. key[d] \in projects /\ projects \subseteq Keys
    BY <1>0, <1>5 DEF WriteRootKey, At, Committed, TypeOK
  <2>1. TypeOK'
    BY <1>0, <1>5, <2>0 DEF WriteRootKey, Goto, TypeOK, Bootstrap
  <2>2. /\ \A e \in Daemons : pc'[e] = IF e = d THEN "bind" ELSE pc[e]
        /\ pc[d] = "write"
        /\ rootKey' = key[d]
        /\ UNCHANGED <<projects, port, key, post, told, cut>>
    BY <1>0, <1>5, GotoReads DEF WriteRootKey, At
  <2>3. Committed'
    BY <1>0, <2>0, <2>2 DEF Committed
  <2>4. Published'
    BY <1>0, <2>0, <2>2 DEF Published, Writing, TypeOK
  <2> QED BY <2>1, <2>3, <2>4 DEF AccountsInv
<1>6. CASE BindPort(d)
  <2>1. TypeOK'
    BY <1>0, <1>6 DEF BindPort, Goto, TypeOK, Bootstrap
  <2>2. /\ \A e \in Daemons : pc'[e] = IF e = d THEN "serve" ELSE pc[e]
        /\ pc[d] = "bind"
        /\ port' = d
        /\ UNCHANGED <<projects, rootKey, key, post, told, cut>>
    BY <1>0, <1>6, GotoReads DEF BindPort, At
  <2>3. Committed'
    BY <1>0, <2>2 DEF Committed
  <2>4. Published'
    BY <1>0, <2>2 DEF Published, Writing
  <2> QED BY <2>1, <2>3, <2>4 DEF AccountsInv
<1>7. CASE PortTaken(d)
  <2>1. TypeOK'
    BY <1>0, <1>7 DEF PortTaken, Goto, TypeOK, Bootstrap
  <2>2. /\ \A e \in Daemons : pc'[e] = IF e = d THEN "off" ELSE pc[e]
        /\ pc[d] = "bind"
        /\ UNCHANGED <<projects, rootKey, port, key, post, told, cut>>
    BY <1>0, <1>7, GotoReads DEF PortTaken, At
  <2>3. Committed'
    BY <1>0, <2>2 DEF Committed
  <2>4. Published'
    BY <1>0, <2>2 DEF Published, Writing, TypeOK
  <2> QED BY <2>1, <2>3, <2>4 DEF AccountsInv
<1>8. CASE Kill(d)
  <2>1. TypeOK'
    <3>1. (cut \/ pc[d] \in {"open", "write"}) \in BOOLEAN
      BY <1>0 DEF TypeOK
    <3>2. post' \in [Daemons -> [op : {"idle", "commit", "reply"}, key : Keys \cup {None}]]
      BY <1>0, <1>8 DEF Kill, TypeOK, Idle
    <3> QED BY <1>0, <1>8, <3>1, <3>2 DEF Kill, Goto, TypeOK
  <2>2. /\ \A e \in Daemons : pc'[e] = IF e = d THEN "off" ELSE pc[e]
        /\ \A e \in Daemons : post'[e] = IF e = d THEN Idle ELSE post[e]
        /\ port' = IF port = d THEN None ELSE port
        /\ cut' = (cut \/ Writing(d))
        /\ UNCHANGED <<projects, rootKey, key, told>>
    BY <1>0, <1>8, GotoReads DEF Kill, TypeOK, Writing
  <2>3. Committed'
    BY <1>0, <2>2 DEF Committed, Idle
  <2>4. Published'
    <3>1. port' # None => pc'[port'] = "serve"
      BY <1>0, <2>2 DEF Published, TypeOK
    <3>2. \A e \in Daemons : pc'[e] \in {"bind", "serve"} => projects' # {}
      BY <1>0, <2>2 DEF Published
    <3>3. ASSUME ~cut', projects' # {}, rootKey' \notin Keys
          PROVE  \E e \in Daemons : Writing(e)'
      <4>1. ~cut /\ ~Writing(d)
        BY <2>2, <3>3
      <4>2. PICK e \in Daemons : Writing(e)
        BY <1>0, <2>2, <3>3, <4>1 DEF Published
      <4>3. Writing(e)'
        BY <2>2, <4>1, <4>2 DEF Writing
      <4> QED BY <4>3
    <3> QED BY <3>1, <3>2, <3>3 DEF Published
  <2> QED BY <2>1, <2>3, <2>4 DEF AccountsInv
<1> QED BY <1>1, <1>2, <1>3, <1>4, <1>5, <1>6, <1>7, <1>8 DEF Serve

LEMMA CreateStep ==
  ASSUME AccountsInv, NEW d \in Daemons, CreateProject(d)
  PROVE  AccountsInv'
<1>0. TypeOK /\ Committed /\ Published
  BY DEF AccountsInv
<1>1. ASSUME NEW k \in Keys, NEW n \in Keys, StartCreate(d, k, n) PROVE AccountsInv'
  <2>1. TypeOK'
    BY <1>0, <1>1 DEF StartCreate, TypeOK
  <2>2. /\ \A e \in Daemons :
             post'[e] = IF e = d THEN [op |-> "commit", key |-> n] ELSE post[e]
        /\ projects # {}
        /\ UNCHANGED <<projects, rootKey, port, pc, key, told, cut>>
    BY <1>0, <1>1 DEF StartCreate, Authed, TypeOK
  <2>3. Committed'
    BY <1>0, <2>2 DEF Committed
  <2>4. Published'
    BY <1>0, <2>2 DEF Published, Writing
  <2> QED BY <2>1, <2>3, <2>4 DEF AccountsInv
<1>2. CASE CommitProject(d)
  <2>0. post[d].key \in Keys /\ projects # {}
    BY <1>0, <1>2 DEF CommitProject, Committed
  <2>1. TypeOK'
    BY <1>0, <1>2, <2>0 DEF CommitProject, TypeOK
  <2>2. /\ \A e \in Daemons : post'[e].key = post[e].key
        /\ \A e \in Daemons : post'[e].op = IF e = d THEN "reply" ELSE post[e].op
        /\ post[d].op = "commit"
        /\ projects' = projects \cup {post[d].key}
        /\ UNCHANGED <<rootKey, port, pc, key, told, cut>>
    BY <1>0, <1>2 DEF CommitProject, TypeOK
  <2>3. Committed'
    BY <1>0, <2>0, <2>2 DEF Committed
  <2>4. Published'
    BY <1>0, <2>0, <2>2 DEF Published, Writing
  <2> QED BY <2>1, <2>3, <2>4 DEF AccountsInv
<1>3. CASE ReplyProject(d)
  <2>0. post[d].key \in projects
    BY <1>0, <1>3 DEF ReplyProject, Committed
  <2>1. TypeOK'
    BY <1>0, <1>3, <2>0 DEF ReplyProject, TypeOK, Idle
  <2>2. /\ \A e \in Daemons : post'[e] = IF e = d THEN Idle ELSE post[e]
        /\ told' = told \cup {post[d].key}
        /\ UNCHANGED <<projects, rootKey, port, pc, key, cut>>
    BY <1>0, <1>3 DEF ReplyProject, TypeOK
  <2>3. Committed'
    BY <1>0, <2>0, <2>2 DEF Committed, Idle
  <2>4. Published'
    BY <1>0, <2>2 DEF Published, Writing
  <2> QED BY <2>1, <2>3, <2>4 DEF AccountsInv
<1> QED BY <1>1, <1>2, <1>3 DEF CreateProject

LEMMA AccountsStep == AccountsInv /\ [Next]_vars => AccountsInv'
<1> SUFFICES ASSUME AccountsInv, [Next]_vars PROVE AccountsInv'
  OBVIOUS
<1>1. ASSUME NEW d \in Daemons, Serve(d) PROVE AccountsInv'
  BY <1>1, ServeStep
<1>2. ASSUME NEW d \in Daemons, CreateProject(d) PROVE AccountsInv'
  BY <1>2, CreateStep
<1>3. CASE ReadRootKey
  BY <1>3 DEF ReadRootKey, AccountsInv, TypeOK, Committed, Published, Writing
<1>4. CASE UNCHANGED vars
  BY <1>4 DEF vars, AccountsInv, TypeOK, Committed, Published, Writing
<1> QED BY <1>1, <1>2, <1>3, <1>4 DEF Next

LEMMA AccountsInvariant == Spec => []AccountsInv
  BY InitAccounts, AccountsStep, PTL DEF Spec

(* Every variable keeps its type, in every instance. *)
THEOREM TypeCorrect == Spec => []TypeOK
  BY AccountsInvariant, PTL DEF AccountsInv

(***************************************************************************)
(* A key that a client has from an answer or from root.key is the key of a *)
(* committed project and stays so: no daemon, whenever it is killed and    *)
(* whichever wrote the file last, publishes a key it may still lose.       *)
(***************************************************************************)
THEOREM ToldKeysAreValid == Spec => []KeysToldAreValid
<1>1. AccountsInv => KeysToldAreValid
  BY DEF AccountsInv, Committed, KeysToldAreValid, Authed
<1> QED BY <1>1, AccountsInvariant, PTL

(***************************************************************************)
(* While a daemon listens and none is in the bootstrap, root.key holds a   *)
(* key that authenticates, unless a daemon was killed between the commit   *)
(* of the default project and the end of the write.                        *)
(***************************************************************************)
THEOREM RootKeyIsUsable == Spec => []RootKeyAuthenticates
<1>1. AccountsInv => RootKeyAuthenticates
  BY DEF AccountsInv, TypeOK, Committed, Published, Writing, RootKeyAuthenticates,
         Authed, Bootstrap
<1> QED BY <1>1, AccountsInvariant, PTL
=============================================================================
