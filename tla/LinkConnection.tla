--------------------------- MODULE LinkConnection ---------------------------
(***************************************************************************)
(* The connection part of the link actors, AbstractDSLinkActor: an actor   *)
(* is connected to at most one endpoint, the actor of a web socket, and    *)
(* keeps what it cannot deliver until the next connection.  A persist and  *)
(* its handler are one step: commands that arrive in between wait.         *)
(***************************************************************************)
EXTENDS Integers, Sequences, FiniteSets

CONSTANTS
  Name,      \* links
  Socket,    \* web sockets, each used for one session
  NameOf,    \* the link a socket belongs to
  Nil        \* Scala's None

ASSUME ConnectionAssumption ==
  /\ NameOf \in [Socket -> Name]
  /\ Nil \notin Socket

VARIABLES
  endpoint,  \* name -> the socket the actor is connected to, or Nil
  watching,  \* name -> is that socket watched?
  saved,     \* name -> endpoint of the last persisted DSLinkBaseState
  mail,      \* name -> mailbox of the actor
  stash,     \* name -> what it stashed
  open,      \* sockets whose actor lives
  doomed     \* sockets sent a PoisonPill

connectionVars == <<endpoint, watching, saved, mail, stash, open, doomed>>

ConnectEndpoint(w)       == [kind |-> "Connect", ws |-> w]
DisconnectEndpoint(kill) == [kind |-> "Disconnect", kill |-> kill]
Terminated(w)            == [kind |-> "Terminated", ws |-> w]

ControlMessage ==
  [kind : {"Connect", "Terminated"}, ws : Socket]
  \cup [kind : {"Disconnect"}, kill : BOOLEAN]
  \cup [kind : {"Stop"}]

ConnectionInit ==
  /\ endpoint = [n \in Name |-> Nil]
  /\ watching = [n \in Name |-> FALSE]
  /\ saved = [n \in Name |-> Nil]
  /\ mail = [n \in Name |-> <<>>]
  /\ stash = [n \in Name |-> <<>>]
  /\ open = {}
  /\ doomed = {}

Connected(n) == endpoint[n] # Nil

Holds(n, kind) == mail[n] # <<>> /\ Head(mail[n]).kind = kind

Take(n) == mail' = [mail EXCEPT ![n] = Tail(@)]

Send(n, m) == mail' = [mail EXCEPT ![n] = Append(@, m)]

(* The endpoint is w from now on; a former one is told to stop.            *)
SwitchTo(n, w) ==
  /\ endpoint' = [endpoint EXCEPT ![n] = w]
  /\ saved' = [saved EXCEPT ![n] = w]
  /\ watching' = [watching EXCEPT ![n] = TRUE]
  /\ stash' = [stash EXCEPT ![n] = <<>>]
  /\ doomed' = doomed \cup ({endpoint[n]} \ {Nil})
  /\ UNCHANGED open

NewEndpoint(n) == Holds(n, "Connect") /\ Head(mail[n]).ws # endpoint[n]

(* Watching a socket that is gone yields its Terminated at once.           *)
Watch(w, queued) == IF w \in open THEN queued ELSE Append(queued, Terminated(w))

(* Mutant: the stash goes to the end of the mailbox.                       *)
ConnectStashLast(n) ==
  /\ NewEndpoint(n)
  /\ LET w == Head(mail[n]).ws IN
       /\ SwitchTo(n, w)
       /\ mail' = [mail EXCEPT ![n] = Watch(w, Tail(@) \o stash[n])]

(* Mutant: a socket is only watched while it is there.                     *)
ConnectUnwatched(n) ==
  /\ NewEndpoint(n)
  /\ SwitchTo(n, Head(mail[n]).ws)
  /\ mail' = [mail EXCEPT ![n] = stash[n] \o Tail(@)]

(* A new endpoint; the stash goes to the front of the mailbox.             *)
ConnectToEndpoint(n) ==
  /\ NewEndpoint(n)
  /\ LET w == Head(mail[n]).ws IN
       /\ SwitchTo(n, w)
       /\ mail' = [mail EXCEPT ![n] = Watch(w, stash[n] \o Tail(@))]

(* "Won't reconnect, already connected to this Endpoint".                  *)
AlreadyConnected(n) ==
  /\ Holds(n, "Connect")
  /\ Head(mail[n]).ws = endpoint[n]
  /\ Take(n)
  /\ UNCHANGED <<endpoint, watching, saved, stash, open, doomed>>

DisconnectFromEndpoint(n, kill) ==
  /\ endpoint' = [endpoint EXCEPT ![n] = Nil]
  /\ saved' = [saved EXCEPT ![n] = Nil]
  /\ watching' = [watching EXCEPT ![n] = FALSE]
  /\ doomed' = IF kill THEN doomed \cup {endpoint[n]} ELSE doomed
  /\ Take(n)
  /\ UNCHANGED <<stash, open>>

(* The handlers that end a session, and the same messages come too late.   *)
SessionEnds(n) ==
  /\ Connected(n)
  /\ \/ Holds(n, "Disconnect") /\ DisconnectFromEndpoint(n, Head(mail[n]).kill)
     \/ /\ Holds(n, "Terminated")
        /\ Head(mail[n]).ws = endpoint[n]
        /\ DisconnectFromEndpoint(n, FALSE)

ControlIgnored(n) ==
  /\ \/ Holds(n, "Disconnect") /\ ~Connected(n)
     \/ Holds(n, "Terminated") /\ Head(mail[n]).ws # endpoint[n]
  /\ Take(n)
  /\ UNCHANGED <<endpoint, watching, saved, stash, open, doomed>>

(* The actor starts and recovers: it is connected again if it was when     *)
(* its last event was written.                                             *)
Recover(n) ==
  /\ endpoint' = [endpoint EXCEPT ![n] = saved[n]]
  /\ UNCHANGED <<watching, saved, mail, stash, open, doomed>>

(* The actor stops: its mail and its stash go to the dead letters.         *)
StopLink(n) ==
  /\ endpoint' = [endpoint EXCEPT ![n] = Nil]
  /\ watching' = [watching EXCEPT ![n] = FALSE]
  /\ mail' = [mail EXCEPT ![n] = <<>>]
  /\ stash' = [stash EXCEPT ![n] = <<>>]
  /\ UNCHANGED <<saved, open, doomed>>

(* The actor of a socket stops, because its peer is gone or it was told    *)
(* to; the links that watch it are notified.                               *)
SocketCloses(w) ==
  /\ w \in open
  /\ open' = open \ {w}
  /\ mail' = [n \in Name |->
       IF endpoint[n] = w /\ watching[n] THEN Append(mail[n], Terminated(w)) ELSE mail[n]]
  /\ UNCHANGED <<endpoint, watching, saved, stash, doomed>>
=============================================================================
