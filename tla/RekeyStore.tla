----------------------------- MODULE RekeyStore -----------------------------
(***************************************************************************)
(* The encrypted local store and its re-keying: security/sqlcipher_store.py*)
(* and security/key_storage.py over a file system that keeps what was      *)
(* written when the process is killed.                                     *)
(*                                                                         *)
(* A file is a record: the writes it holds, the key that opens it (Plain   *)
(* when it is no ciphertext), and whether a copy of it was cut off or      *)
(* taken while somebody wrote.  An open connection keeps the file it       *)
(* opened, also after a rename has put another file at that path.          *)
(***************************************************************************)
EXTENDS Integers, FiniteSets

CONSTANTS
    Write,      \* the commits the application may make
    Conn,       \* its connections
    MaxKeys,    \* bound: keys that secrets.token_hex has produced
    MaxRekeys,  \* bound: re-keying cycles that fall due
    MaxKills    \* bound: times the process is killed

ASSUME RekeyAssumption == MaxKeys \in Nat \ {0} /\ MaxRekeys \in Nat /\ MaxKills \in Nat

Plain   == 0        \* the key of a file that sqlite3 reads as it is
Empty   == -1       \* a key file that was created and not yet written
Missing == -2       \* no such file

File(writes, key, intact) == [writes |-> writes, key |-> key, intact |-> intact]
NoFile == File({}, Missing, TRUE)

VARIABLES
    cipher,     \* pysqlcipher3 can be imported by this process
    db, tmp,    \* the files at db_path and at db_path + ".rekey_tmp"
    keyfile,    \* the key file: Missing, Empty or a key
    conn,       \* connection -> where its open file is: "no", "db", "gone"
    opener,     \* step of open_encrypted_store in each connection
    held,       \* connection -> the key it has read or made
    rekey,      \* step of rekey_database_atomic; "torn" is a copy met by a commit
    due,        \* is_rekey_due: 180 days since the last success
    cycles,     \* cycles that fell due so far
    committed,  \* history: every commit the application was told of
    raced,      \* history: those made while a re-keying was under way, or to a
                \*   file that a re-keying had replaced
    keys, kills \* bounds: keys made, kills

rekeyVars == <<cipher, db, tmp, keyfile, conn, opener, held, rekey, due, cycles, committed, raced, keys, kills>>

fileVars == <<db, tmp, keyfile>>
connVars == <<conn, opener, held>>
history  == <<committed, raced>>

-----------------------------------------------------------------------------
RekeyInit ==
    /\ cipher \in BOOLEAN
    /\ db = NoFile /\ tmp = NoFile /\ keyfile = Missing
    /\ conn = [c \in Conn |-> "no"] /\ opener = [c \in Conn |-> "idle"]
    /\ held = [c \in Conn |-> Plain]
    /\ rekey = "idle" /\ due = FALSE /\ cycles = 0
    /\ committed = {} /\ raced = {} /\ keys = 0 /\ kills = 0

\* sqlite opens the file at db_path with a key, or makes it; a file of another
\* key is "not a database".
Connect(c, key) ==
    /\ db' = IF db = NoFile THEN File({}, key, TRUE) ELSE db
    /\ conn' = [conn EXCEPT ![c] = IF db'.key = key THEN "db" ELSE "no"]
    /\ opener' = [opener EXCEPT ![c] = "idle"]
    /\ UNCHANGED <<cipher, tmp, keyfile, held, rekey, due, cycles, history, keys, kills>>

\* open_encrypted_store without pysqlcipher3.
OpenPlain(c) == ~cipher /\ opener[c] = "idle" /\ conn[c] = "no" /\ Connect(c, Plain)

\* _get_or_create_key: the file is read, or a key is made when there is none.
ReadKey(c) ==
    /\ cipher /\ opener[c] = "idle" /\ conn[c] = "no"
    /\ \/ /\ keyfile # Missing
          /\ held' = [held EXCEPT ![c] = keyfile]
          /\ opener' = [opener EXCEPT ![c] = "connect"]
          /\ UNCHANGED keys
       \/ /\ keyfile = Missing /\ keys < MaxKeys
          /\ keys' = keys + 1
          /\ held' = [held EXCEPT ![c] = keys + 1]
          /\ opener' = [opener EXCEPT ![c] = "create"]
    /\ UNCHANGED <<cipher, fileVars, conn, rekey, due, cycles, history, kills>>

\* open(keyfile, "w") empties the file; the key is written after that.
CreateKeyFile(c) ==
    /\ opener[c] = "create"
    /\ keyfile' = Empty
    /\ opener' = [opener EXCEPT ![c] = "write"]
    /\ UNCHANGED <<cipher, db, tmp, conn, held, rekey, due, cycles, history, keys, kills>>

WriteKeyFile(c) ==
    /\ opener[c] = "write"
    /\ keyfile' = held[c]
    /\ opener' = [opener EXCEPT ![c] = "connect"]
    /\ UNCHANGED <<cipher, db, tmp, conn, held, rekey, due, cycles, history, keys, kills>>

\* The empty key makes x'', a pass phrase like any other.
OpenCipher(c) == opener[c] = "connect" /\ Connect(c, held[c])

Close(c) ==
    /\ conn[c] # "no"
    /\ conn' = [conn EXCEPT ![c] = "no"]
    /\ UNCHANGED <<cipher, fileVars, opener, held, rekey, due, cycles, history, keys, kills>>

\* The application commits; a copy under way may read pages of both states.
Commit(c, w) ==
    /\ conn[c] # "no" /\ w \notin committed
    /\ committed' = committed \cup {w}
    /\ raced' = IF rekey = "idle" /\ conn[c] = "db" THEN raced ELSE raced \cup {w}
    /\ IF conn[c] = "db"
       THEN /\ db' = [db EXCEPT !.writes = @ \cup {w}]
            /\ rekey' \in (IF rekey = "copying" THEN {"copying", "torn"} ELSE {rekey})
       ELSE UNCHANGED <<db, rekey>>
    /\ UNCHANGED <<cipher, tmp, keyfile, connVars, due, cycles, keys, kills>>

-----------------------------------------------------------------------------
FallDue ==
    /\ db # NoFile /\ ~due /\ cycles < MaxRekeys
    /\ due' = TRUE /\ cycles' = cycles + 1
    /\ UNCHANGED <<cipher, fileVars, connVars, rekey, history, keys, kills>>

ResumeRekey ==
    /\ due /\ rekey = "idle" /\ db # NoFile
    /\ tmp' = IF tmp = NoFile THEN db ELSE tmp
    /\ rekey' = "copied"
    /\ UNCHANGED <<cipher, db, keyfile, connVars, due, cycles, history, keys, kills>>

StartOnCleanDisk ==
    /\ due /\ rekey = "idle" /\ db # NoFile /\ tmp = NoFile
    /\ tmp' = [db EXCEPT !.intact = FALSE]
    /\ rekey' = "copying"
    /\ UNCHANGED <<cipher, db, keyfile, connVars, due, cycles, history, keys, kills>>

\* rekey_database_atomic: what an aborted attempt left is removed, and the copy
\* begins.
StartRekey ==
    /\ due /\ rekey = "idle" /\ db # NoFile
    /\ tmp' = [db EXCEPT !.intact = FALSE]
    /\ rekey' = "copying"
    /\ UNCHANGED <<cipher, db, keyfile, connVars, due, cycles, history, keys, kills>>

FinishCopy ==
    /\ rekey \in {"copying", "torn"}
    /\ tmp' = [tmp EXCEPT !.intact = (rekey = "copying") /\ db.intact]
    /\ rekey' = "copied"
    /\ UNCHANGED <<cipher, db, keyfile, connVars, due, cycles, history, keys, kills>>

\* Plain sqlite3 cannot read a ciphertext.
EncryptedOnDisk(file) == file # NoFile /\ file.key # Plain

\* The copy is opened with plain sqlite3 and its tables are counted: that fails
\* on any ciphertext, and may or may not fail on a torn copy.
Verify ==
    /\ rekey = "copied"
    /\ \/ /\ ~EncryptedOnDisk(tmp)
          /\ rekey' = "verified" /\ UNCHANGED tmp
       \/ /\ EncryptedOnDisk(tmp) \/ ~tmp.intact
          /\ rekey' = "idle" /\ tmp' = NoFile
    /\ UNCHANGED <<cipher, db, keyfile, connVars, due, cycles, history, keys, kills>>

\* os.replace: open connections keep the file that was there.
Replace ==
    /\ rekey = "verified"
    /\ db' = tmp /\ tmp' = NoFile
    /\ conn' = [c \in Conn |-> IF conn[c] = "db" THEN "gone" ELSE conn[c]]
    /\ rekey' = "idle" /\ due' = FALSE
    /\ UNCHANGED <<cipher, keyfile, opener, held, cycles, history, keys, kills>>

\* The process is killed: only the files are left.  The next one may have gained
\* or lost the cipher.
Kill ==
    /\ kills < MaxKills
    /\ kills' = kills + 1
    /\ conn' = [c \in Conn |-> "no"] /\ opener' = [c \in Conn |-> "idle"]
    /\ held' = [c \in Conn |-> Plain]
    /\ rekey' = "idle"
    /\ cipher' \in BOOLEAN
    /\ UNCHANGED <<fileVars, due, cycles, history, keys>>

Rekey == StartRekey \/ FinishCopy \/ Verify \/ Replace

RekeyNext ==
    \/ \E c \in Conn :
        \/ OpenPlain(c) \/ ReadKey(c) \/ CreateKeyFile(c) \/ WriteKeyFile(c) \/ OpenCipher(c)
        \/ Close(c)
        \/ \E w \in Write : Commit(c, w)
    \/ FallDue \/ Rekey \/ Kill

\* The application looks at is_rekey_due again and again, and a re-keying that
\* has begun runs on.
RekeySpec == RekeyInit /\ [][RekeyNext]_rekeyVars /\ WF_rekeyVars(Rekey)

-----------------------------------------------------------------------------
\* A commit is lost, or the database damaged, only by a commit that met a
\* re-keying or a connection that one had left on the old file: a kill at any
\* step, and any stale temporary file, leave every earlier commit in place
\* (key_storage.py:86-128).
OnlyRacesLoseCommits ==
    db # NoFile => /\ committed \ raced \subseteq db.writes
                   /\ db.intact \/ raced # {}

\* A store that is plain sqlite is re-keyed once the cycle is due, whatever
\* kills and stale files come in between, unless a race damaged it.
DuePlainRekeyed == (due /\ db.key = Plain) ~> (~due \/ ~db.intact)

=============================================================================
