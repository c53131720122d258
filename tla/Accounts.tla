------------------------------ MODULE Accounts ------------------------------
(***************************************************************************)
(* Projects and API keys of the engine (kladosd.py): the bootstrap of the  *)
(* default project and of the file root.key in init_db, which runs before  *)
(* the daemon binds its port, so that two daemons started at once both run *)
(* it; create_project, whose key is shown once; and authentication.  A     *)
(* daemon may be killed between any two steps.  A key stands for its hash  *)
(* and for the project whose row holds the hash.                           *)
(***************************************************************************)
EXTENDS Naturals

CONSTANTS Daemons,  \* kladosd processes over one KLADOS_HOME
          Keys,     \* keys secrets.token_urlsafe may produce
          None

(* A key is "klados_" and random characters: neither no key nor what the   *)
(* file is called while it holds none.                                     *)
ASSUME AccountsAssumption ==
  None \notin Daemons \cup Keys /\ Keys \cap {"absent", "empty"} = {}

VARIABLES
  projects,  \* table projects: keys whose hash is in a row
  rootKey,   \* the file root.key: absent, empty, or a key
  port,      \* the daemon that listens on 127.0.0.1:7070
  pc,        \* where a daemon is in serve
  key,       \* the key its init_db generated
  post,      \* its create_project request: idle, or a key before and after the commit
  drawn,     \* keys generated so far
  told,      \* keys some client has learned
  cut        \* history: a daemon died after the commit, before the key was in the file

vars == <<projects, rootKey, port, pc, key, post, drawn, told, cut>>

Bootstrap == {"insert", "open", "write"}

Idle == [op |-> "idle", key |-> None]

TypeOK ==
  /\ projects \subseteq Keys /\ drawn \subseteq Keys /\ told \subseteq Keys
  /\ rootKey \in {"absent", "empty"} \cup Keys
  /\ port \in Daemons \cup {None}
  /\ pc \in [Daemons -> {"off", "select", "bind", "serve"} \cup Bootstrap]
  /\ key \in [Daemons -> Keys \cup {None}]
  /\ post \in [Daemons -> [op : {"idle", "commit", "reply"}, key : Keys \cup {None}]]
  /\ cut \in BOOLEAN

Init ==
  /\ projects = {} /\ drawn = {} /\ told = {}
  /\ rootKey = "absent"
  /\ port = None
  /\ pc = [d \in Daemons |-> "off"]
  /\ key = [d \in Daemons |-> None]
  /\ post = [d \in Daemons |-> Idle]
  /\ cut = FALSE

At(d, l) == pc[d] = l
Goto(d, l) == pc' = [pc EXCEPT ![d] = l]

-----------------------------------------------------------------------------
(* serve *)

(* init_db: directories, store and schema are created if they are missing. *)
StartDaemon(d) ==
  /\ At(d, "off")
  /\ Goto(d, "select")
  /\ UNCHANGED <<projects, rootKey, port, key, post, drawn, told, cut>>

(* SELECT 1 FROM projects *)
SelectProject(d) ==
  /\ At(d, "select")
  /\ Goto(d, IF projects = {} THEN "insert" ELSE "bind")
  /\ UNCHANGED <<projects, rootKey, port, key, post, drawn, told, cut>>

(* A key is drawn, and the row of the default project committed. *)
InsertDefault(d, k) ==
  /\ At(d, "insert") /\ k \notin drawn
  /\ drawn' = drawn \cup {k}
  /\ key' = [key EXCEPT ![d] = k]
  /\ projects' = projects \cup {k}
  /\ Goto(d, "open")
  /\ UNCHANGED <<rootKey, port, post, told, cut>>

(* open(root.key, "w") truncates the file, whoever wrote it. *)
OpenRootKey(d) ==
  /\ At(d, "open")
  /\ rootKey' = "empty"
  /\ Goto(d, "write")
  /\ UNCHANGED <<projects, port, key, post, drawn, told, cut>>

(* Mutant: the key is written when there is none in the file yet. *)
WriteRootKeyOnce(d) ==
  /\ At(d, "write")
  /\ rootKey' = IF rootKey = "absent" THEN key[d] ELSE rootKey
  /\ Goto(d, "bind")
  /\ UNCHANGED <<projects, port, key, post, drawn, told, cut>>

(* The key is written; keys are of one length, so a second writer's covers *)
(* the first one's.                                                        *)
WriteRootKey(d) ==
  /\ At(d, "write")
  /\ rootKey' = key[d]
  /\ Goto(d, "bind")
  /\ UNCHANGED <<projects, port, key, post, drawn, told, cut>>

BindPort(d) ==
  /\ At(d, "bind") /\ port = None
  /\ port' = d
  /\ Goto(d, "serve")
  /\ UNCHANGED <<projects, rootKey, key, post, drawn, told, cut>>

(* EADDRINUSE: the second daemon ends with an exception. *)
PortTaken(d) ==
  /\ At(d, "bind") /\ port # None
  /\ Goto(d, "off")
  /\ UNCHANGED <<projects, rootKey, port, key, post, drawn, told, cut>>

(* The daemon is killed; what it had committed and written stays. *)
Kill(d) ==
  /\ ~At(d, "off")
  /\ Goto(d, "off")
  /\ port' = IF port = d THEN None ELSE port
  /\ post' = [post EXCEPT ![d] = Idle]
  /\ cut' = (cut \/ pc[d] \in {"open", "write"})
  /\ UNCHANGED <<projects, rootKey, key, drawn, told>>

-----------------------------------------------------------------------------
(* Clients *)

(* project_of_key, _authed: a key without a project is answered 401. *)
Authed(k) == k \in projects

(* A client takes the key from the file (demo_auth.sh). *)
ReadRootKey ==
  /\ rootKey \in Keys
  /\ told' = told \cup {rootKey}
  /\ UNCHANGED <<projects, rootKey, port, pc, key, post, drawn, cut>>

(* POST /v1/projects by a client whose key is good. *)
StartCreate(d, k, n) ==
  /\ At(d, "serve") /\ post[d] = Idle
  /\ k \in told /\ Authed(k)
  /\ n \notin drawn /\ drawn' = drawn \cup {n}
  /\ post' = [post EXCEPT ![d] = [op |-> "commit", key |-> n]]
  /\ UNCHANGED <<projects, rootKey, port, pc, key, told, cut>>

(* Mutant: the connection is closed without a commit. *)
CommitProjectNot(d) ==
  /\ post[d].op = "commit"
  /\ post' = [post EXCEPT ![d].op = "reply"]
  /\ UNCHANGED <<projects, rootKey, port, pc, key, drawn, told, cut>>

CommitProject(d) ==
  /\ post[d].op = "commit"
  /\ projects' = projects \cup {post[d].key}
  /\ post' = [post EXCEPT ![d].op = "reply"]
  /\ UNCHANGED <<rootKey, port, pc, key, drawn, told, cut>>

(* The answer carries the key, this once. *)
ReplyProject(d) ==
  /\ post[d].op = "reply"
  /\ told' = told \cup {post[d].key}
  /\ post' = [post EXCEPT ![d] = Idle]
  /\ UNCHANGED <<projects, rootKey, port, pc, key, drawn, cut>>

Serve(d) ==
  \/ StartDaemon(d) \/ SelectProject(d)
  \/ \E k \in Keys : InsertDefault(d, k)
  \/ OpenRootKey(d) \/ WriteRootKey(d) \/ BindPort(d) \/ PortTaken(d) \/ Kill(d)

CreateProject(d) ==
  \/ \E k, n \in Keys : StartCreate(d, k, n)
  \/ CommitProject(d) \/ ReplyProject(d)

Next == (\E d \in Daemons : Serve(d) \/ CreateProject(d)) \/ ReadRootKey

Spec == Init /\ [][Next]_vars

-----------------------------------------------------------------------------
(* Properties. *)

(***************************************************************************)
(* A key a client has learned, from an answer or from root.key, at any     *)
(* time and from whichever daemon wrote the file last, is accepted for     *)
(* ever: keys are published only after their project is committed.         *)
(***************************************************************************)
KeysToldAreValid == \A k \in told : Authed(k)

(***************************************************************************)
(* A daemon that serves can be used: once nobody is inside the bootstrap,  *)
(* root.key holds the key of a project, even when two daemons bootstrapped *)
(* at once.  The one exception is a daemon killed between the commit and   *)
(* the end of the write: the next start finds a project and does not       *)
(* bootstrap again, and nobody has a key.                                  *)
(***************************************************************************)
RootKeyAuthenticates ==
  /\ port # None
  /\ \A d \in Daemons : pc[d] \notin Bootstrap
  /\ ~cut
  => rootKey \in Keys /\ Authed(rootKey)
=============================================================================
