---------------------------- MODULE NorFlashLog -----------------------------
(***************************************************************************)
(* The device's event log (frostsnap_embedded/src/nor_flash_log.rs): an    *)
(* append-only list of entries in NOR flash.  An entry is a length word    *)
(* followed by its body; push programs the body through a small buffer and *)
(* the length last, and nothing is erased before.  At boot seek_iter reads *)
(* the entries and leaves the position behind the last one.                *)
(*                                                                         *)
(* Programming flash only clears bits: a word holds what it was programmed *)
(* with since it was erased, {} when it was not and something that was     *)
(* never written when it was programmed with two different values.         *)
(***************************************************************************)
EXTENDS Integers, Sequences

CONSTANTS
  Items,      (* the mutations that are logged                             *)
  Words,      (* Words[i]: words in the encoding of item i                 *)
  BufWords,   (* WRITE_BUF_SIZE in words                                   *)
  Capacity,   (* words in the partition                                    *)
  MaxPushes,  (* bound: pushes                                             *)
  None

ASSUME LogAssumption ==
  /\ Words \in [Items -> Nat \ {0}]
  /\ BufWords \in Nat \ {0}
  /\ Capacity \in Nat \ {0}
  /\ MaxPushes \in Nat
  /\ None \notin Items

VARIABLES
  flash,      (* what every word was programmed with                       *)
  pos,        (* word_pos                                                  *)
  pc,         (* idle, pushing, boot, or failed to boot                    *)
  item,       (* the item being pushed                                     *)
  done,       (* words of its body that are programmed                     *)
  entries,    (* history: the items whose push returned                    *)
  torn,       (* history: a push stopped after it programmed some word     *)
  pushes      (* history: pushes begun                                     *)

vars == <<flash, pos, pc, item, done, entries, torn, pushes>>

Positions == 0 .. Capacity - 1

LengthWord(n) == <<"length", n>>
BodyWord(i, k) == <<i, k>>

----------------------------------------------------------------------------
(* Reading *)

End(p) == [ok |-> TRUE, items |-> <<>>, end |-> p]
Unreadable == [ok |-> FALSE, items |-> <<>>, end |-> 0]

\* The items that decode from an entry of n words with its length at p: all of
\* its body is as it was programmed.
Decodes(f, p, n) ==
  {i \in Items : Words[i] = n /\ \A k \in 1 .. n : f[p + k] = {BodyWord(i, k)}}

\* The lengths that the word at p can be read as.
Lengths(f, p) == {n \in 1 .. Capacity : f[p] = {LengthWord(n)} /\ p + n < Capacity}

\* The entry with its length at p, as its number of words and its item.
EntriesAt(f, p) == {x \in Lengths(f, p) \X Items : x[2] \in Decodes(f, p, x[1])}

\* One turn of seek_iter at position p, where from is what it finds further on.
ReadEntry(f, p, from) ==
  IF p = Capacity THEN Unreadable            \* "failed to read length byte"
  ELSE IF f[p] = {} THEN End(p)
  ELSE IF EntriesAt(f, p) = {} THEN Unreadable
  ELSE LET e == CHOOSE x \in EntriesAt(f, p) : TRUE
           rest == from[p + 1 + e[1]]
       IN  IF rest.ok THEN [ok |-> TRUE, items |-> <<e[2]>> \o rest.items, end |-> rest.end]
                      ELSE Unreadable

\* seek_iter of the flash f, from every position.
ReadFrom(f) ==
  LET from[p \in 0 .. Capacity] == ReadEntry(f, p, from) IN from

Entries(f) == ReadFrom(f)[0]

----------------------------------------------------------------------------
Init ==
  /\ flash = [p \in Positions |-> {}]
  /\ pos = 0
  /\ pc = "idle"
  /\ item = None
  /\ done = 0
  /\ entries = <<>>
  /\ torn = FALSE
  /\ pushes = 0

BeginPush(i) ==
  /\ pc = "idle"
  /\ pushes < MaxPushes
  /\ pc' = "body"
  /\ item' = i
  /\ done' = 0
  /\ pushes' = pushes + 1
  /\ UNCHANGED <<flash, pos, entries, torn>>

\* The words the next nor_write of the encoder or of flush programs.
NextWords == done + 1 .. IF done + BufWords < Words[item] THEN done + BufWords ELSE Words[item]

WriteFits == \A k \in NextWords : pos + k < Capacity

WriteBody ==
  /\ pc = "body"
  /\ WriteFits
  /\ flash' = [p \in Positions |->
                 IF p - pos \in NextWords THEN flash[p] \cup {BodyWord(item, p - pos)} ELSE flash[p]]
  /\ done' = done + BufWords
  /\ pc' = IF done + BufWords >= Words[item] THEN "length" ELSE "body"
  /\ UNCHANGED <<pos, item, entries, torn, pushes>>

\* Mutant: the position is not moved past the length word.
WriteLengthKeepsWord ==
  /\ pc = "length"
  /\ flash' = [flash EXCEPT ![pos] = @ \cup {LengthWord(Words[item])}]
  /\ pos' = pos + Words[item]
  /\ entries' = Append(entries, item)
  /\ pc' = "idle"
  /\ item' = None
  /\ done' = 0
  /\ UNCHANGED <<torn, pushes>>

\* The length, and the push returns.
WriteLength ==
  /\ pc = "length"
  /\ flash' = [flash EXCEPT ![pos] = @ \cup {LengthWord(Words[item])}]
  /\ pos' = pos + Words[item] + 1
  /\ entries' = Append(entries, item)
  /\ pc' = "idle"
  /\ item' = None
  /\ done' = 0
  /\ UNCHANGED <<torn, pushes>>

\* The device starts again; a push that programmed something leaves it behind.
Restart ==
  /\ torn' = (torn \/ (item # None /\ done > 0))
  /\ pc' = "boot"
  /\ item' = None
  /\ done' = 0
  /\ UNCHANGED <<flash, pos, entries, pushes>>

\* The partition is full: "writing core mutations failed".
PushFails ==
  /\ pc = "body"
  /\ ~WriteFits
  /\ Restart

PowerLoss ==
  /\ pc \in {"idle", "body", "length"}
  /\ Restart

\* Mutant: the log is read and the position left where it was read from.
BootKeepsStart ==
  /\ pc = "boot"
  /\ IF Entries(flash).ok THEN pc' = "idle" ELSE pc' = "failed"
  /\ pos' = 0
  /\ UNCHANGED <<flash, item, done, entries, torn, pushes>>

\* The device loop reads the log: "failed to read event" when it cannot.
Boot ==
  /\ pc = "boot"
  /\ LET log == Entries(flash)
     IN  IF log.ok THEN pc' = "idle" /\ pos' = log.end
                   ELSE pc' = "failed" /\ UNCHANGED pos
  /\ UNCHANGED <<flash, item, done, entries, torn, pushes>>

Next ==
  \/ \E i \in Items : BeginPush(i)
  \/ WriteBody
  \/ WriteLength
  \/ PushFails
  \/ PowerLoss
  \/ Boot

Spec == Init /\ [][Next]_vars

----------------------------------------------------------------------------
(* Properties *)

\* A log that ends where its partition does has no erased word that ends it.
Full == pos = Capacity

\* A push is atomic: as long as none was cut short before and the log is not full
\* to the last word, a boot at any moment, in the middle of a push too, finds the
\* pushed items in order, the one being pushed among them only once its length is
\* written (push, seek_iter).
PushAtomic ==
  ~torn /\ ~Full => Entries(flash).ok /\ Entries(flash).items = entries

\* A boot goes on where the last push ended: after it the position is where
\* pushing without a reboot would be.
BootFindsEnd == ~torn /\ ~Full /\ pc = "idle" => pos = Entries(flash).end

\* "failed to read event": the log that was written can be read at every boot.
LogAlwaysReads == pc # "failed"

=============================================================================
