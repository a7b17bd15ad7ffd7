------------------------------- MODULE Mirror -------------------------------
(***************************************************************************)
(* An application that mirrors the selected mailbox over a Session: the    *)
(* sizes and removals that the server reports with its replies reach it in *)
(* the result of a call, or in the queue, and it applies the result when   *)
(* the call returns and the queue when it takes it.  The server's mailbox  *)
(* and the application are external; what reaches the application is       *)
(* Session's.                                                              *)
(***************************************************************************)
EXTENDS Session, SequencesExt

CONSTANT MaxUid     \* bound on the messages delivered

ASSUME MirrorAssumption == MaxUid \in Nat

VARIABLES
    box,        \* the server's mailbox: the UIDs of its messages, in order
    told,       \* history: what each of the received responses told
    mirror,     \* the application's copy of the mailbox
    trusted     \* nothing has happened that the application must expect to lose

mirrorVars == <<box, told, mirror, trusted>>
allVars == <<vars, mirrorVars>>

About == {"exists", "expunge", "vanished"}

MirrorInit ==
    /\ Init
    /\ box = <<1, 2>> /\ mirror = box
    /\ told = <<>>
    /\ trusted = TRUE

-----------------------------------------------------------------------------
(* The server: EXISTS tells the size of the mailbox, perhaps after a       *)
(* delivery; EXPUNGE the number of a message that is gone, VANISHED its    *)
(* UID.  From the size the application fetches what is beyond its copy.    *)
(* UIDs only grow.                                                         *)
Used == {1, 2} \cup UNION {ToSet(told[i].box) : i \in DOMAIN told}
Fresh == {uid \in 1..MaxUid : \A n \in Used : n < uid}
Without(copy, uid) ==
    IF uid \in ToSet(copy) THEN RemoveAt(copy, CHOOSE n \in DOMAIN copy : copy[n] = uid) ELSE copy

Tell(kind, number, boxThen) ==
    told' = Append(told, [kind |-> kind, number |-> number, box |-> boxThen])

Exists ==
    /\ box' \in {box} \cup {Append(box, uid) : uid \in Fresh}
    /\ Tell("exists", Len(box'), box')
Expunge ==
    \E n \in DOMAIN box : box' = RemoveAt(box, n) /\ Tell("expunge", n, <<>>)
Vanish ==
    \E uid \in ToSet(box) : box' = Without(box, uid) /\ Tell("vanished", uid, <<>>)

MirrorReceive(kind) ==
    /\ Receive(kind)
    /\ CASE kind = "exists"   -> Exists
         [] kind = "expunge"  -> Expunge
         [] kind = "vanished" -> Vanish
         [] OTHER             -> Tell(kind, 0, <<>>) /\ UNCHANGED box
    /\ UNCHANGED <<mirror, trusted>>

-----------------------------------------------------------------------------
(* The application applies what responses tell to its copy, those of a     *)
(* result in the order they came.                                          *)
Grown(copy, size, boxThen) ==
    IF size > Len(copy) THEN copy \o SubSeq(boxThen, Len(copy) + 1, size) ELSE copy
Applied(copy, news) ==
    CASE news.kind = "exists"   -> Grown(copy, news.number, news.box)
      [] news.kind = "expunge"  -> IF news.number \in DOMAIN copy
                                   THEN RemoveAt(copy, news.number) ELSE copy
      [] news.kind = "vanished" -> Without(copy, news.number)
      [] OTHER                  -> copy
AppliedAll(copy, responses) ==
    FoldLeft(Applied, copy, [i \in DOMAIN responses |-> told[responses[i]]])
ByArrival(responses) ==
    CHOOSE q \in [1..Cardinality(responses) -> responses] :
        \A i, j \in DOMAIN q : i < j => q[i] < q[j]

Relevant(responses) == {n \in responses : received[n].kind \in About}
OfThisCall == {n \in DOMAIN received : received[n].call = call}

(* What came with a reply that is dropped: to run_command_and_check_ok, or *)
(* to a call that fails.                                                   *)
Dropped == cmd = "check" \/ verdict' # "ok"

(* The result and the queue are each in order, but not with each other.    *)
Unordered == Relevant(Collected) # {} /\ Relevant(Range(unsolicited)) # {}

MirrorReturn ==
    /\ Return
    /\ IF cmd = "select" /\ verdict' = "ok"
       THEN \* A new start, if the queue holds nothing about the mailbox left behind.
            /\ mirror' = box
            /\ trusted' = (Relevant(Range(unsolicited)) = {})
       ELSE /\ mirror' = IF verdict' = "ok" THEN AppliedAll(mirror, ByArrival(Collected))
                         ELSE mirror
            /\ trusted' = (trusted /\ ~Unordered /\ ~(Dropped /\ Relevant(OfThisCall) # {}))
    /\ UNCHANGED <<box, told>>

MirrorTake ==
    /\ Take
    /\ mirror' = AppliedAll(mirror, unsolicited)
    /\ UNCHANGED <<box, told, trusted>>

MirrorIssue == Issue /\ UNCHANGED mirrorVars

MirrorNext ==
    \/ MirrorIssue \/ (\E kind \in Kinds : MirrorReceive(kind)) \/ MirrorReturn \/ MirrorTake

MirrorSpec == MirrorInit /\ [][MirrorNext]_allVars

-----------------------------------------------------------------------------
(* Once it has taken the queue, the application's copy is the server's     *)
(* mailbox, across calls and whichever of them a response comes with,      *)
(* unless a reply was dropped, a result and the queue both tell of the     *)
(* mailbox, or the queue of one mailbox was left when another is selected  *)
(* (the parsers of parse.rs, take_all_unsolicited).                        *)
InStepWithServer ==
    cmd = "none" /\ trusted /\ Relevant(Range(unsolicited)) = {} => mirror = box
=============================================================================
