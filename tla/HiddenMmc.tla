----------------------------- MODULE HiddenMmc -----------------------------
(***************************************************************************)
(* hidden_mmc.c: reading and writing the hidden areas at the end of the    *)
(* eMMC.  Sizes and starts of the areas are in sectors, offsets and        *)
(* lengths of the calls in bytes.                                          *)
(*                                                                         *)
(* A call computes where the areas are from the size of the card, which it *)
(* reads from sysfs, checks the offset, lifts the address limit of its     *)
(* thread, opens the card, transfers with up to five retries, and undoes   *)
(* what it did -- on most paths.                                           *)
(***************************************************************************)
EXTENDS Integers

CONSTANTS
    SectorSize,  \* MMC_HIDDENn_PAGESIZE: sectors of each area, a function on 0 .. n
    CardSizes,   \* what may be in SIZE_PATH
    BOOT,        \* MMC_BOOT_PAGESIZE
    UNIT,        \* bytes of a sector: the shifts by 9
    RETRIES,     \* 5
    Offsets,     \* the offsets of the calls
    LEAKS        \* bound: files left open by earlier calls

Areas == DOMAIN SectorSize

VARIABLES
    pc,           \* where the call is
    op,           \* "MMC_ReadHidden" or "MMC_WriteHidden"
    hidden_idx, offset,
    start,        \* stHidden.HiddenStart of the area
    hiddenStart,  \* the position of the transfer
    tries,        \* transfers so far
    limit,        \* the address limit of the thread
    open,         \* files it has open
    result        \* what the last call returned

call  == <<op, hidden_idx, offset, start, hiddenStart>>
vars  == <<pc, call, tries, limit, open, result>>

Init ==
    /\ pc = "idle" /\ op = "MMC_ReadHidden" /\ hidden_idx = 0 /\ offset = 0
    /\ start = 0 /\ hiddenStart = 0 /\ tries = 0
    /\ limit = "USER_DS" /\ open = 0 /\ result = 0
-----------------------------------------------------------------------------
\* The size of the card, or a negative error; 0 when it is not a number.
get_size == CardSizes \cup {0, -1}

\* The areas lie below the boot sectors, each below the one before.
HiddenStart(size) ==
    LET at[i \in Areas] == (IF i = 0 THEN size - BOOT ELSE at[i - 1]) - SectorSize[i]
    IN  at

limitedSize(i) == SectorSize[i] * UNIT

Return(ret) == pc' = "idle" /\ result' = ret /\ tries' = 0

\* MMC_Hidden_Info and the check of the offset.  Reading takes the offset for
\* sectors.
Enter(o, i, b) ==
    /\ pc = "idle" /\ open <= LEAKS
    /\ op' = o /\ hidden_idx' = i /\ offset' = b
    /\ \E size \in get_size : start' = HiddenStart(size)[i]
    /\ IF b < limitedSize(i)
       THEN /\ pc' = "open" /\ limit' = "KERNEL_DS"
            /\ hiddenStart' = IF o = "MMC_ReadHidden" THEN (start' + b) * UNIT ELSE start' * UNIT + b
            /\ UNCHANGED <<tries, result>>
       ELSE Return(-1) /\ hiddenStart' = 0 /\ UNCHANGED limit
    /\ UNCHANGED open

Open ==
    /\ pc = "open" /\ pc' = "transfer"
    /\ open' = open + 1
    /\ UNCHANGED <<call, tries, limit, result>>

\* The error path closes the file that could not be opened: the kernel
\* dereferences an error for a file.
OpenFails ==
    /\ pc = "open" /\ pc' = "oops"
    /\ UNCHANGED <<call, tries, limit, open, result>>

\* filp_close and set_fs(oldfs).
Undo == limit' = "USER_DS" /\ open' = open - 1

\* The first transfer may also move nothing.
Transferred ==
    /\ pc = "transfer"
    /\ Undo /\ Return(0)
    /\ UNCHANGED call

\* A retry that moves nothing is retried, and is a success when it is the last.
NothingMoved ==
    /\ pc = "transfer" /\ tries \in 1 .. RETRIES
    /\ IF tries < RETRIES
       THEN tries' = tries + 1 /\ UNCHANGED <<pc, limit, open, result>>
       ELSE Undo /\ Return(0)
    /\ UNCHANGED call

Failed ==
    /\ pc = "transfer" /\ tries < RETRIES
    /\ tries' = tries + 1
    /\ UNCHANGED <<pc, call, limit, open, result>>

ReadFails ==
    /\ pc = "transfer" /\ tries = RETRIES /\ op = "MMC_ReadHidden"
    /\ Undo /\ Return(-1)
    /\ UNCHANGED call

\* Writing leaves by the label for a bad offset: nothing is undone.
WriteFails ==
    /\ pc = "transfer" /\ tries = RETRIES /\ op = "MMC_WriteHidden"
    /\ Return(-1)
    /\ UNCHANGED <<call, limit, open>>

Next ==
    \/ \E o \in {"MMC_ReadHidden", "MMC_WriteHidden"}, i \in Areas, b \in Offsets : Enter(o, i, b)
    \/ Open \/ OpenFails
    \/ Transferred \/ NothingMoved \/ Failed \/ ReadFails \/ WriteFails

Spec == Init /\ [][Next]_vars
-----------------------------------------------------------------------------
\* "invaild access offset 0x%x Hidden Area 0x%x limitted size 0x%x"
\* (hidden_mmc.c:127): a transfer starts in the area it was asked for.
AccessInArea ==
    pc = "transfer" =>
        hiddenStart - start * UNIT \in 0 .. limitedSize(hidden_idx) - 1
=============================================================================
