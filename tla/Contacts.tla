------------------------------ MODULE Contacts ------------------------------
(***************************************************************************)
(* The contacts plugin (internal/plugins/contacts): a copy of the phone's  *)
(* address book.  A round asks for the list of contacts with the time each *)
(* was changed, then for the cards of the new and the changed ones.  Every *)
(* answer is handled by a goroutine of its own: answers may change places, *)
(* and any packet may be lost with the session.                            *)
(*                                                                         *)
(* A contact's time stamp is its version.  Abstracted: what cards say, the *)
(* size limits (a card that is refused is a card that did not come), the   *)
(* files (the index and the card files are written under one mutex), the   *)
(* chunks of a request.                                                    *)
(***************************************************************************)
EXTENDS Naturals

CONSTANTS
    Uids,    \* contacts
    MaxEdits \* bound: how often the phone's book changes

ASSUME ContactsAssumption == MaxEdits \in Nat

Absent == 0
Stamps == 1..(MaxEdits + 1)

VARIABLES
    book,    \* the phone: per contact its time stamp, or Absent
    edits,   \* how often it has changed
    index,   \* the daemon: per contact its entry
    answers, \* lists that a goroutine is about to handle
    toFetch, \* the request for cards on its way: a set of contacts
    cards,   \* answers with cards that a goroutine is about to handle
    paired   \* the phone is trusted

contactsVars == <<book, edits, index, answers, toFetch, cards, paired>>

(* An entry: the time stamp, and whether a card has been stored.           *)
NoEntry == [stamp |-> Absent, fetched |-> FALSE]

ContactsInit ==
    /\ book \in [Uids -> {Absent, 1}]
    /\ edits = 1
    /\ index = [u \in Uids |-> NoEntry]
    /\ answers = {} /\ toFetch = {} /\ cards = {}
    /\ paired = TRUE

(* Known means in the index: an entry that came with a card only has no    *)
(* time stamp.                                                             *)
Known(u)  == index[u] # NoEntry

(* List leaves out the contacts whose card has not come yet.               *)
ListedContacts == {u \in Uids : index[u].fetched}

-----------------------------------------------------------------------------
EditBook(u, stamp) ==
    /\ edits <= MaxEdits /\ edits' = edits + 1
    /\ stamp \in {Absent, edits + 1}
    /\ book' = [book EXCEPT ![u] = stamp]
    /\ UNCHANGED <<index, answers, toFetch, cards, paired>>

(* RequestSync, on connect or by command, and the phone's answer, with the *)
(* book as it is or, without permission, with an empty one.                *)
RequestSync(list) ==
    /\ paired /\ answers = {}
    /\ answers' = {list}
    /\ UNCHANGED <<book, edits, index, toFetch, cards, paired>>

RequestAgain ==
    /\ paired /\ answers # {} /\ book \notin answers
    /\ answers' = {book} \union answers
    /\ UNCHANGED <<book, edits, index, toFetch, cards, paired>>

DeleteStale_OnlyFetched(list, u) ==
    /\ list[u] = Absent /\ \E v \in Uids : list[v] # Absent
    /\ index[u].stamp # Absent

(* Contacts that are not in a list are deleted, unless it is empty.        *)
DeleteStale(list, u) ==
    list[u] = Absent /\ \E v \in Uids : list[v] # Absent

ToFetch(list) == {u \in Uids : list[u] # Absent /\ list[u] # index[u].stamp}

(* requestVCards: in packets of so many contacts, or in vain.              *)
RequestCards(wanted) == toFetch' \in {{}, toFetch \union wanted}

(* handleUIDsResponse: the time stamps are recorded before the cards have  *)
(* come.  A request for cards that cannot be sent is given up.             *)
HandleUids(list) ==
    /\ answers' = answers \ {list}
    /\ index' = [u \in Uids |->
                    IF list[u] # Absent THEN [index[u] EXCEPT !.stamp = list[u]]
                    ELSE IF DeleteStale(list, u) THEN NoEntry
                    ELSE index[u]]
    /\ RequestCards(ToFetch(list))
    /\ UNCHANGED <<book, edits, cards, paired>>

(* The phone sends the cards it has, or the packet is lost.                *)
SendCards ==
    /\ toFetch # {} /\ cards = {}
    /\ toFetch' = {}
    /\ cards' \in {{}, {{u \in toFetch : book[u] # Absent}}}
    /\ UNCHANGED <<book, edits, index, answers, paired>>

(* handleVCardsResponse: some may be refused or impossible to store.  A    *)
(* contact that was deleted meanwhile gets an entry again.                 *)
HandleCards(sent, stored) ==
    /\ sent \in cards /\ stored \subseteq sent
    /\ cards' = cards \ {sent}
    /\ index' = [u \in Uids |->
                    IF u \in stored THEN [index[u] EXCEPT !.fetched = TRUE]
                    ELSE index[u]]
    /\ UNCHANGED <<book, edits, answers, toFetch, paired>>

(* The command that clears the cache.                                      *)
ForgetDevice ==
    /\ \E u \in Uids : Known(u)
    /\ index' = [u \in Uids |-> NoEntry]
    /\ UNCHANGED <<book, edits, answers, toFetch, cards, paired>>

(* Unpair: trust ends, the session ends, the cache is wiped.               *)
UnpairWipes ==
    /\ paired /\ paired' = FALSE
    /\ index' = [u \in Uids |-> NoEntry]
    /\ toFetch' = {}
    /\ UNCHANGED <<book, edits, answers, cards>>

(* Handle leaves every answer to a goroutine of its own.                   *)
AnswerHandled == \E list \in answers : HandleUids(list)

ContactsNext ==
    \/ \E u \in Uids, stamp \in Stamps \union {Absent} : EditBook(u, stamp)
    \/ \E list \in {book, [u \in Uids |-> Absent]} : RequestSync(list)
    \/ AnswerHandled \/ RequestAgain \/ SendCards
    \/ \E sent, stored \in SUBSET Uids : HandleCards(sent, stored)
    \/ ForgetDevice \/ UnpairWipes

ContactsSpec == ContactsInit /\ [][ContactsNext]_contactsVars

-----------------------------------------------------------------------------
(* Properties.                                                             *)

ContactsTypeOK ==
    LET Lists == [Uids -> Stamps \union {Absent}]
    IN  /\ book \in Lists /\ answers \subseteq Lists
        /\ edits \in Stamps /\ paired \in BOOLEAN
        /\ index \in [Uids -> [stamp : Stamps \union {Absent},
                               fetched : BOOLEAN]]
        /\ toFetch \subseteq Uids /\ cards \subseteq SUBSET Uids

(* A contact the phone has dropped leaves the list for good, also when its *)
(* card arrives after its deletion or an old list after a new one.  Only   *)
(* an empty book proves nothing: it may be a missing permission.           *)
DroppedContactsLeave ==
    <>[](\/ ~paired
         \/ ListedContacts \subseteq {u \in Uids : book[u] # Absent}
         \/ \A u \in Uids : book[u] = Absent)

=============================================================================
