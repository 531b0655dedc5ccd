------------------------------ MODULE FriendList ------------------------------
(***************************************************************************)
(* The friend list of the main window (openFriendStatDialog() in           *)
(* app/mainwindow.cpp): the addresses in friends.json, the rows that show  *)
(* them, and "Add" and "Del".  A row is built for one position of the      *)
(* list; "Del" removes that position and leaves the rows to be rebuilt     *)
(* when the event loop is reached again.  The prompt for an address and    *)
(* the connection that "View" makes are in Screens.                        *)
(***************************************************************************)
EXTENDS SequencesExt, FiniteSets, Naturals

CONSTANTS
    Addresses,      \* the addresses that may be typed
    NoAddress       \* an empty answer

ASSUME FriendConstants == NoAddress \notin Addresses

VARIABLES
    friends,        \* the list of the dialog that is shown
    widgets,        \* its rows: the address that each of them shows
    rebuildDue,     \* the single-shot timer of "Del" has not fired
    jsonExists,     \* friends.json exists
    jsonFriends,    \* the addresses loadFriends() reads from it
    oldAddress      \* friend_ip.txt of an earlier version, or NoAddress

friendListVars == <<friends, widgets, rebuildDue, jsonExists, jsonFriends, oldAddress>>

AddressLists == { s \in UNION { [1..n -> Addresses] : n \in 0..Cardinality(Addresses) } :
                    IsInjective(s) }

-----------------------------------------------------------------------------
SaveFriends(list) ==
    /\ jsonExists' = TRUE
    /\ jsonFriends' = list

FriendListInit ==
    /\ friends = <<>> /\ widgets = <<>>
    /\ rebuildDue = FALSE
    /\ \/ jsonExists = FALSE /\ jsonFriends = <<>>
       \/ jsonExists = TRUE /\ jsonFriends \in AddressLists
    /\ oldAddress \in Addresses \union {NoAddress}

\* Mutant of OpenFriendList: an empty list is migrated again.
OpenFriendListMigratesAgain ==
    /\ friends' = IF jsonFriends = <<>> /\ oldAddress # NoAddress
                  THEN <<oldAddress>> ELSE jsonFriends
    /\ IF friends' # jsonFriends THEN SaveFriends(friends')
                                 ELSE UNCHANGED <<jsonExists, jsonFriends>>
    /\ widgets' = friends'
    /\ rebuildDue' = FALSE
    /\ UNCHANGED oldAddress

(* The migration of the old file, loadFriends() and rebuildList().         *)
OpenFriendList ==
    /\ IF ~jsonExists /\ oldAddress # NoAddress
       THEN SaveFriends(<<oldAddress>>)
       ELSE UNCHANGED <<jsonExists, jsonFriends>>
    /\ friends' = jsonFriends'
    /\ widgets' = friends'
    /\ rebuildDue' = FALSE
    /\ UNCHANGED oldAddress

(* "Del" of row i; the row may be out of date, and then the position holds *)
(* another address or none.                                                *)
PressDel(i) ==
    /\ friends' = IF i <= Len(friends) THEN RemoveAt(friends, i) ELSE friends
    /\ SaveFriends(friends')
    /\ rebuildDue' = TRUE
    /\ UNCHANGED <<widgets, oldAddress>>

(* The timer of "Del" fires.                                               *)
RebuildList ==
    /\ rebuildDue
    /\ widgets' = friends
    /\ rebuildDue' = FALSE
    /\ UNCHANGED <<friends, jsonExists, jsonFriends, oldAddress>>

(* "Add" after the prompt: an address that is not in the list.             *)
AddFriend(ip) ==
    /\ ip # NoAddress /\ ip \notin ToSet(friends)
    /\ friends' = Append(friends, ip)
    /\ SaveFriends(friends')
    /\ widgets' = friends'
    /\ UNCHANGED <<rebuildDue, oldAddress>>

(* The power fails in saveFriends(), when the file is truncated and not    *)
(* yet written: loadFriends() finds no list in it.                         *)
CutFriendsFile == SaveFriends(<<>>)

-----------------------------------------------------------------------------
FriendListTypeOK ==
    /\ friends \in Seq(Addresses) /\ widgets \in Seq(Addresses)
    /\ rebuildDue \in BOOLEAN /\ jsonExists \in BOOLEAN
    /\ jsonFriends \in Seq(Addresses)
    /\ oldAddress \in Addresses \union {NoAddress}

(* No address is listed twice: not through "Add", whose check follows a    *)
(* prompt during which the list may have changed, nor through the          *)
(* migration or a list left by a power failure.                            *)
NoFriendTwice == IsInjective(friends) /\ IsInjective(jsonFriends)

=============================================================================
