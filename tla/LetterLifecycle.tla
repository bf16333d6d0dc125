--------------------------- MODULE LetterLifecycle ---------------------------
(***************************************************************************)
(* What the love-letter endpoints promise (routers/README.md, "Love        *)
(* Letter"): a letter is a draft that its author may throw away or send    *)
(* once; sent, it can only be read, once, and keeps its author and its     *)
(* recipient.                                                              *)
(***************************************************************************)
CONSTANTS
    Users,      \* who writes and receives letters
    LetterIds,  \* the identifiers a letter can get
    None        \* "no such letter"

VARIABLE letter \* the letter each identifier names

Init == letter = [i \in LetterIds |-> None]

Write(i, author, recipient) ==
    /\ letter[i] = None
    /\ author # recipient
    /\ letter' = [letter EXCEPT ![i] = [status |-> "draft", author |-> author,
                                        recipient |-> recipient]]

Holds(i, status) == letter[i] # None /\ letter[i].status = status

Discard(i) ==
    /\ Holds(i, "draft")
    /\ letter' = [letter EXCEPT ![i] = None]

Send(i) ==
    /\ Holds(i, "draft")
    /\ letter' = [letter EXCEPT ![i].status = "sent"]

Read(i) ==
    /\ Holds(i, "sent")
    /\ letter' = [letter EXCEPT ![i].status = "read"]

Next ==
    \E i \in LetterIds :
        \/ \E author, recipient \in Users : Write(i, author, recipient)
        \/ Discard(i)
        \/ Send(i)
        \/ Read(i)

Spec == Init /\ [][Next]_letter

==============================================================================
