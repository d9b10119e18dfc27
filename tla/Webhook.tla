------------------------------ MODULE Webhook -------------------------------
(***************************************************************************)
(* The Lidarr webhook (internal/server): an event names the tracks of an   *)
(* album and the files it imported. Every track is resolved to where its   *)
(* lyrics go (a file the scans know, a file of the event, or the output    *)
(* directory), and only then are they enqueued, one by one; Lidarr sends   *)
(* an event again after an error. Requests run concurrently with each      *)
(* other, with the scans and with whoever moves the files.                 *)
(*                                                                         *)
(* What Enqueue and Cleanup do to a row that is claimed or done is in      *)
(* WorkQueue; here a row waits, or is not there.                           *)
(***************************************************************************)
EXTENDS Naturals, Sequences

CONSTANTS
    Delivery,      \* requests under way
    Title,         \* the tracks of the album, by name
    File,          \* files an event or a scan may name, by id of the scan result
    TitleOf,       \* [File -> Title]: what the tags say
    Names,         \* [File -> SUBSET Title]: titles the base name contains
    InRoot,        \* files below a configured library root
    InAlbum,       \* files whose path contains the name of the album
    Payload,       \* the events: titles, paths and whether the album is named
    MaxDeliveries, \* events in all
    OutputDir, NoRow

\* Grab and Rename are alike, and so are Download and TrackRetag.
Event == {"Download", "Delete", "Grab"}

ASSUME WebhookAssumption ==
    /\ File \subseteq Nat /\ InRoot \subseteq File /\ InAlbum \subseteq File
    /\ Payload \subseteq [event : Event, titles : Seq(Title), paths : Seq(File), album : BOOLEAN]
    /\ TitleOf \in [File -> Title] /\ Names \in [File -> SUBSET Title]
    /\ MaxDeliveries \in Nat /\ NoRow \notin File \cup {OutputDir}

VARIABLES
    inventory,  \* [File -> status of its scan result, or "absent"]
    disk,       \* files that are there, as files
    queued,     \* [Title -> destination of the waiting row, or NoRow]
    delivery,   \* [Delivery -> the request and how far its handler is]
    deliveries  \* events so far

hookVars == <<inventory, disk, queued, delivery, deliveries>>

NoDelivery == [pc |-> "idle", event |-> "Grab", titles |-> <<>>, paths |-> <<>>,
               album |-> FALSE, inputs |-> <<>>, removed |-> {}]

HookInit ==
    /\ inventory = [f \in File |-> "absent"] /\ disk = File
    /\ queued = [t \in Title |-> NoRow]
    /\ delivery = [d \in Delivery |-> NoDelivery] /\ deliveries = 0

-----------------------------------------------------------------------------
(* Where the lyrics of a track go                                          *)

\* FindByTrack orders the rows that are not done first, then by id.
Before(f, g) == \/ inventory[f] # "done" /\ inventory[g] = "done"
                \/ (inventory[f] = "done") = (inventory[g] = "done") /\ f <= g
First(found) == CHOOSE f \in found : \A g \in found : Before(f, g)
FindByTrack(t) == {f \in File : inventory[f] # "absent" /\ TitleOf[f] = t}

\* A file of the album if the event names one, else the first row.
pickByAlbum(found, hinted) ==
    IF hinted /\ found \cap InAlbum # {} THEN First(found \cap InAlbum) ELSE First(found)

\* A path that leaves the roots, or is not there, is not resolved.
confinedPayloadPath(f) == f \in InRoot /\ f \in disk

\* The only file of an only track is taken as it is; otherwise the first one
\* whose base name contains the title.
usablePath(paths, t, single) ==
    LET usable == {i \in DOMAIN paths : /\ confinedPayloadPath(paths[i])
                                        /\ \/ single /\ Len(paths) = 1
                                           \/ t \in Names[paths[i]]}
    IN IF usable = {} THEN OutputDir
       ELSE paths[CHOOSE i \in usable : \A j \in usable : i <= j]

\* looked is FALSE when the lookup fails, which is no error of the event.
resolveTrack(t, d, looked) ==
    IF looked /\ FindByTrack(t) # {}
    THEN pickByAlbum(FindByTrack(t), delivery[d].album)
    ELSE usablePath(delivery[d].paths, t, Len(delivery[d].titles) = 1)

-----------------------------------------------------------------------------
(* handleLidarr                                                            *)

Handling(d, pc) == delivery[d].pc = pc
Ended(d) == delivery[d].pc \in {"idle", "ok", "error"}

\* An event, new or sent again, with a valid key and a payload that decodes.
\* No titles stand for a payload without artist, tracks or a track's title:
\* a Download is refused, a Delete ends well.
Receive(d) ==
    /\ Ended(d) /\ deliveries < MaxDeliveries /\ deliveries' = deliveries + 1
    /\ \E p \in Payload :
         delivery' = [delivery EXCEPT ![d] =
             [pc |-> CASE p.event = "Download" /\ p.titles # <<>> -> "resolve"
                       [] p.event = "Download" /\ p.titles = <<>> -> "error"
                       [] p.event = "Delete" /\ p.titles # <<>>   -> "cleanup"
                       [] OTHER                                   -> "ok",
              event |-> p.event, titles |-> p.titles, paths |-> p.paths, album |-> p.album,
              inputs |-> <<>>, removed |-> {}]]
    /\ UNCHANGED <<inventory, disk, queued>>

\* No key, another scope, a body that is no payload, an event nobody knows.
Refuse(d) ==
    /\ Ended(d) /\ deliveries < MaxDeliveries /\ deliveries' = deliveries + 1
    /\ delivery' = [delivery EXCEPT ![d] = [NoDelivery EXCEPT !.pc = "error"]]
    /\ UNCHANGED <<inventory, disk, queued>>

\* resolveInputs: the next title; all of them before the first is enqueued.
Resolve(d) ==
    /\ Handling(d, "resolve")
    /\ LET n == Len(delivery[d].inputs) + 1
           t == delivery[d].titles[n]
       IN \E looked \in BOOLEAN :
            delivery' = [delivery EXCEPT
                ![d].inputs = Append(@, [title |-> t, dest |-> resolveTrack(t, d, looked)]),
                ![d].pc = IF n = Len(delivery[d].titles) THEN "enqueue" ELSE "resolve"]
    /\ UNCHANGED <<inventory, disk, queued, deliveries>>

\* Faulty: an input that cannot be enqueued is passed over.
EnqueueOrSkip(d) ==
    /\ Handling(d, "enqueue")
    /\ \/ queued' = [queued EXCEPT ![delivery[d].inputs[1].title] = delivery[d].inputs[1].dest]
       \/ UNCHANGED queued
    /\ delivery' = [delivery EXCEPT ![d].inputs = Tail(@),
                                    ![d].pc = IF Len(delivery[d].inputs) = 1 THEN "ok" ELSE @]
    /\ UNCHANGED <<inventory, disk, deliveries>>

\* The next input; the row that waits for the title is written anew.
Enqueue(d) ==
    /\ Handling(d, "enqueue")
    /\ queued' = [queued EXCEPT ![delivery[d].inputs[1].title] = delivery[d].inputs[1].dest]
    /\ delivery' = [delivery EXCEPT ![d].inputs = Tail(@),
                                    ![d].pc = IF Len(delivery[d].inputs) = 1 THEN "ok" ELSE @]
    /\ UNCHANGED <<inventory, disk, deliveries>>

\* Delete: the next title's row goes; the other requests take note.
Cleanup(d) ==
    /\ Handling(d, "cleanup")
    /\ LET t == Head(delivery[d].titles)
       IN /\ queued' = [queued EXCEPT ![t] = NoRow]
          /\ delivery' = [x \in Delivery |->
                IF x # d THEN [delivery[x] EXCEPT !.removed = @ \cup {t}]
                ELSE [delivery[d] EXCEPT
                        !.titles = Tail(@),
                        !.pc = IF Len(delivery[d].titles) = 1 THEN "ok" ELSE @]]
    /\ UNCHANGED <<inventory, disk, deliveries>>

\* The queue fails: what was done so far stays.
Fails(d) ==
    /\ Handling(d, "enqueue") \/ Handling(d, "cleanup")
    /\ delivery' = [delivery EXCEPT ![d] = [NoDelivery EXCEPT !.pc = "error"]]
    /\ UNCHANGED <<inventory, disk, queued, deliveries>>

\* A scan finds a file of a library, and later its lyrics are written.
ScanFile(f) ==
    /\ \/ f \in InRoot \cap disk /\ inventory[f] = "absent"
          /\ inventory' = [inventory EXCEPT ![f] = "pending"]
       \/ inventory[f] = "pending" /\ inventory' = [inventory EXCEPT ![f] = "done"]
    /\ UNCHANGED <<disk, queued, delivery, deliveries>>

\* Someone removes a file (one outside the roots is not looked at anyway).
RemoveFile(f) == /\ f \in disk \cap InRoot /\ disk' = disk \ {f}
                 /\ UNCHANGED <<inventory, queued, delivery, deliveries>>

HookNext ==
    \/ \E d \in Delivery : \/ Receive(d) \/ Refuse(d) \/ Resolve(d)
                           \/ Enqueue(d) \/ Cleanup(d) \/ Fails(d)
    \/ \E f \in File : ScanFile(f) \/ RemoveFile(f)

HookSpec == HookInit /\ [][HookNext]_hookVars

-----------------------------------------------------------------------------
(* Properties                                                              *)

\* Type invariant of the requests and the rows they leave.
HookTypeOK ==
    /\ inventory \in [File -> {"absent", "pending", "done"}] /\ disk \subseteq File
    /\ queued \in [Title -> File \cup {OutputDir, NoRow}]
    /\ \A d \in Delivery :
         /\ delivery[d].pc \in {"idle", "resolve", "enqueue", "cleanup", "ok", "error"}
         /\ Len(delivery[d].inputs) <= Len(delivery[d].titles)

\* A Download that was answered with 200 left a row for every track it named,
\* unless a Delete took it: also when an earlier delivery stopped in the
\* middle, a lookup failed or the files moved; and the row never sends the
\* lyrics outside the libraries and the output directory.
Acknowledged ==
    /\ \A d \in Delivery : Handling(d, "ok") /\ delivery[d].event = "Download" =>
         \A n \in DOMAIN delivery[d].titles :
            LET t == delivery[d].titles[n] IN queued[t] # NoRow \/ t \in delivery[d].removed
    /\ \A t \in Title : queued[t] \in InRoot \cup {OutputDir, NoRow}

=============================================================================
