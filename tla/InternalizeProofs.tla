-------------------------- MODULE InternalizeProofs --------------------------
(* Theorems of Internalize for every dependency and any number of processes. *)
EXTENDS Internalize, TLAPS

\* What a process knows of the disk: a file it writes is not yet whole; the
\* address it computed is still true; it shares only files by_id has; and it
\* holds one file at a time.
Knows(p) ==
  /\ \A f, g \in process[p].file : f = g
  /\ process[p].at = "write" =>
       /\ filling # "link"
       /\ process[p].file # {}
  /\ process[p].at = "place" => process[p].file # {}
  /\ process[p].at \in {"hashed", "make", "share"} =>
       \A f \in File :
         /\ process[p].hash[f] = "whole" => inode[f] = "whole"
         /\ process[p].hash[f] # "none" => inode[f] # "none"
  /\ process[p].at = "share" =>
       /\ process[p].hash \in DOMAIN by_hash
       /\ process[p].todo \cup process[p].file \subseteq Present

ProcessInv == \A p \in Process : Knows(p)

IInv == TypeOK /\ ProcessInv /\ SharedStaysWhole

-----------------------------------------------------------------------------
(* Safety with crashes *)

\* A process with no call running holds nothing.
LEMMA EndedType ==
  ASSUME NEW how \in Places, NEW h \in Hash
  PROVE  /\ Ended(how, h) \in Call
         /\ Ended(how, h).at = how /\ Ended(how, h).file = {}
         /\ Ended(how, h).todo = {} /\ Ended(how, h).hash = h
BY DEF Ended, Call

LEMMA WholeType == Whole \in Hash
BY DEF Whole, Hash, Contents

\* Nothing is there initially.
LEMMA InitInv == Init => IInv
<1> SUFFICES ASSUME Init PROVE IInv
  OBVIOUS
<1>0. /\ inode \in Hash /\ DOMAIN by_hash = {}
      /\ id_dir \in BOOLEAN /\ filling \in {"link", "fallback", "copytree"}
  BY DEF Init, Hash, Contents
<1>p. /\ process = [p \in Process |-> Ended("idle", Whole)]
      /\ \A p \in Process : process[p] = Ended("idle", Whole)
  BY DEF Init
<1>q. "idle" \in Places
  BY DEF Places
<1>r. HistoryOK
  <2>1. kills \in 0..MaxKills
    BY InternalizeAssumption DEF Init
  <2>2. contended \in BOOLEAN
    BY DEF Init
  <2> QED BY <2>1, <2>2 DEF HistoryOK
<1>1. TypeOK
  BY <1>0, <1>p, <1>q, <1>r, EndedType, WholeType DEF TypeOK
<1>2. ProcessInv
  BY <1>p, <1>q, EndedType, WholeType DEF ProcessInv, Knows
<1>3. SharedStaysWhole
  BY <1>0, <1>p, <1>q, EndedType, WholeType DEF SharedStaysWhole
<1> QED BY <1>1, <1>2, <1>3 DEF IInv

\* What a move does to the processes.
LEMMA Move ==
  ASSUME TypeOK, NEW p \in Process, NEW c \in Call, Goes(p, c)
  PROVE  /\ process' \in [Process -> Call]
         /\ process'[p] = c
         /\ \A q \in Process \ {p} : process'[q] = process[q]
BY DEF TypeOK, Goes

\* No step leaves the types.
LEMMA TypeStep ==
  ASSUME TypeOK, NEW p \in Process, Step(p) \/ Crash(p) \/ Again(p),
         HistoryOK'
  PROVE  TypeOK'
<1> USE WholeType, EndedType
<1>0. process[p] \in Call /\ p \in DOMAIN process
  BY DEF TypeOK
<1>a. ASSUME NEW c \in Call, Goes(p, c),
             c.file # {} => c.at \in {"place", "write", "share"},
             UNCHANGED filling, id_dir' \in BOOLEAN, inode' \in Hash,
             DOMAIN by_hash' \subseteq Hash,
             \A h \in DOMAIN by_hash' : by_hash'[h] \subseteq File
      PROVE  TypeOK'
  BY <1>a, Move DEF TypeOK
<1>1. CASE Adopt(p)
  <2> DEFINE c == [process[p] EXCEPT !.at = "hash"]
  <2>1. c \in Call /\ (c.file # {} => c.at \in {"place", "write", "share"})
    BY <1>0, <1>1 DEF Adopt, TypeOK, Call, Places
  <2>2. Goes(p, c)
    BY <1>1 DEF Adopt
  <2>3. /\ UNCHANGED filling /\ id_dir' \in BOOLEAN /\ inode' \in Hash
         /\ DOMAIN by_hash' \subseteq Hash
         /\ \A h \in DOMAIN by_hash' : by_hash'[h] \subseteq File
    BY <1>1 DEF Adopt, TypeOK
  <2> QED BY <1>a, <2>1, <2>2, <2>3
<1>2. CASE FindMissing(p)
  <2> DEFINE c == [process[p] EXCEPT !.at = "mkdir"]
  <2>1. c \in Call /\ (c.file # {} => c.at \in {"place", "write", "share"})
    BY <1>0, <1>2 DEF FindMissing, TypeOK, Call, Places
  <2>2. Goes(p, c)
    BY <1>2 DEF FindMissing
  <2>3. /\ UNCHANGED filling /\ id_dir' \in BOOLEAN /\ inode' \in Hash
         /\ DOMAIN by_hash' \subseteq Hash
         /\ \A h \in DOMAIN by_hash' : by_hash'[h] \subseteq File
    BY <1>2 DEF FindMissing, TypeOK
  <2> QED BY <1>a, <2>1, <2>2, <2>3
<1>3. CASE MakeIdDir(p)
  <2> DEFINE c == [process[p] EXCEPT !.at = "fill", !.todo = File]
  <2>1. c \in Call /\ (c.file # {} => c.at \in {"place", "write", "share"})
    BY <1>0, <1>3 DEF MakeIdDir, TypeOK, Call, Places, Present
  <2>2. Goes(p, c)
    BY <1>3 DEF MakeIdDir
  <2>3. /\ UNCHANGED filling /\ id_dir' \in BOOLEAN /\ inode' \in Hash
         /\ DOMAIN by_hash' \subseteq Hash
         /\ \A h \in DOMAIN by_hash' : by_hash'[h] \subseteq File
    BY <1>3 DEF MakeIdDir, TypeOK, Hash, Contents
  <2> QED BY <1>a, <2>1, <2>2, <2>3
<1>4. CASE SkipFile(p)
  <2>p. PICK f \in process[p].todo : Goes(p, [process[p] EXCEPT !.todo = @ \ {f}])
    BY <1>4 DEF SkipFile
  <2> DEFINE c == [process[p] EXCEPT !.todo = @ \ {f}]
  <2>1. c \in Call /\ (c.file # {} => c.at \in {"place", "write", "share"})
    BY <1>0 DEF TypeOK, Call
  <2>2. Goes(p, c)
    BY <2>p
  <2>3. /\ UNCHANGED filling /\ id_dir' \in BOOLEAN /\ inode' \in Hash
         /\ DOMAIN by_hash' \subseteq Hash
         /\ \A h \in DOMAIN by_hash' : by_hash'[h] \subseteq File
    BY <1>4 DEF SkipFile, TypeOK
  <2> QED BY <1>a, <2>1, <2>2, <2>3
<1>5. CASE PickFile(p)
  <2>p. PICK f \in process[p].todo : Goes(p, [process[p] EXCEPT !.at = "place", !.todo = @ \ {f}, !.file = {f}])
    BY <1>5 DEF PickFile
  <2> DEFINE c == [process[p] EXCEPT !.at = "place", !.todo = @ \ {f}, !.file = {f}]
  <2>1. c \in Call /\ (c.file # {} => c.at \in {"place", "write", "share"})
    <3>1. /\ process[p].todo \ {f} \in SUBSET File /\ {f} \in SUBSET File
          /\ process[p] \in Call /\ "place" \in Places
      BY <1>0, <2>p DEF Call, Places
    <3>2. c \in Call
      BY <3>1 DEF Call
    <3>3. c.at = "place"
      BY <1>0, <1>5 DEF PickFile, Call
    <3> QED BY <3>2, <3>3
  <2>2. Goes(p, c)
    BY <1>5, <2>p DEF PickFile
  <2>3. /\ UNCHANGED filling /\ id_dir' \in BOOLEAN /\ inode' \in Hash
         /\ DOMAIN by_hash' \subseteq Hash
         /\ \A h \in DOMAIN by_hash' : by_hash'[h] \subseteq File
    BY <1>5, <2>p DEF PickFile, TypeOK, Hash, Contents
  <2> QED BY <1>a, <2>1, <2>2, <2>3
<1>6. CASE LinkFile(p)
  <2> DEFINE c == [process[p] EXCEPT !.file = {}, !.at = "fill"]
  <2>1. c \in Call /\ (c.file # {} => c.at \in {"place", "write", "share"})
    BY <1>0, <1>6 DEF LinkFile, TypeOK, Call, Places, Present
  <2>2. Goes(p, c)
    BY <1>6 DEF LinkFile
  <2>3. /\ UNCHANGED filling /\ id_dir' \in BOOLEAN /\ inode' \in Hash
         /\ DOMAIN by_hash' \subseteq Hash
         /\ \A h \in DOMAIN by_hash' : by_hash'[h] \subseteq File
    BY <1>6 DEF LinkFile, TypeOK, Hash, Contents
  <2> QED BY <1>a, <2>1, <2>2, <2>3
<1>7. CASE LoseLink(p)
  <2> DEFINE c == Ended("raised", Whole)
  <2>1. c \in Call /\ (c.file # {} => c.at \in {"place", "write", "share"})
    BY <1>0 DEF Places, Call
  <2>2. Goes(p, c)
    BY <1>7 DEF LoseLink
  <2>3. /\ UNCHANGED filling /\ id_dir' \in BOOLEAN /\ inode' \in Hash
         /\ DOMAIN by_hash' \subseteq Hash
         /\ \A h \in DOMAIN by_hash' : by_hash'[h] \subseteq File
    BY <1>7 DEF LoseLink, TypeOK
  <2> QED BY <1>a, <2>1, <2>2, <2>3
<1>8. CASE OpenCopy(p)
  <2> DEFINE c == [process[p] EXCEPT !.at = "write"]
  <2>1. c \in Call /\ (c.file # {} => c.at \in {"place", "write", "share"})
    BY <1>0, <1>8 DEF OpenCopy, TypeOK, Call, Places
  <2>2. Goes(p, c)
    BY <1>8 DEF OpenCopy
  <2>3. /\ UNCHANGED filling /\ id_dir' \in BOOLEAN /\ inode' \in Hash
         /\ DOMAIN by_hash' \subseteq Hash
         /\ \A h \in DOMAIN by_hash' : by_hash'[h] \subseteq File
    BY <1>8 DEF OpenCopy, TypeOK, Hash, Contents
  <2> QED BY <1>a, <2>1, <2>2, <2>3
<1>9. CASE CannotOpen(p)
  <2> DEFINE c == Ended("raised", Whole)
  <2>1. c \in Call /\ (c.file # {} => c.at \in {"place", "write", "share"})
    BY <1>0 DEF Places, Call
  <2>2. Goes(p, c)
    BY <1>9 DEF CannotOpen
  <2>3. /\ UNCHANGED filling /\ id_dir' \in BOOLEAN /\ inode' \in Hash
         /\ DOMAIN by_hash' \subseteq Hash
         /\ \A h \in DOMAIN by_hash' : by_hash'[h] \subseteq File
    BY <1>9 DEF CannotOpen, TypeOK
  <2> QED BY <1>a, <2>1, <2>2, <2>3
<1>10. CASE NoteError(p)
  <2> DEFINE c == [process[p] EXCEPT !.at = "fill", !.file = {}, !.errors = TRUE]
  <2>1. c \in Call /\ (c.file # {} => c.at \in {"place", "write", "share"})
    BY <1>0, <1>10 DEF NoteError, TypeOK, Call, Places, Present
  <2>2. Goes(p, c)
    BY <1>10 DEF NoteError
  <2>3. /\ UNCHANGED filling /\ id_dir' \in BOOLEAN /\ inode' \in Hash
         /\ DOMAIN by_hash' \subseteq Hash
         /\ \A h \in DOMAIN by_hash' : by_hash'[h] \subseteq File
    BY <1>10 DEF NoteError, TypeOK, Hash, Contents
  <2> QED BY <1>a, <2>1, <2>2, <2>3
<1>11. CASE CloseCopy(p)
  <2> DEFINE c == [process[p] EXCEPT !.file = {}, !.at = "fill"]
  <2>1. c \in Call /\ (c.file # {} => c.at \in {"place", "write", "share"})
    BY <1>0, <1>11 DEF CloseCopy, TypeOK, Call, Places, Present
  <2>2. Goes(p, c)
    BY <1>11 DEF CloseCopy
  <2>3. /\ UNCHANGED filling /\ id_dir' \in BOOLEAN /\ inode' \in Hash
         /\ DOMAIN by_hash' \subseteq Hash
         /\ \A h \in DOMAIN by_hash' : by_hash'[h] \subseteq File
    BY <1>11 DEF CloseCopy, TypeOK, Hash, Contents
  <2> QED BY <1>a, <2>1, <2>2, <2>3
<1>12. CASE RaiseCopy(p)
  <2> DEFINE c == Ended("raised", Whole)
  <2>1. c \in Call /\ (c.file # {} => c.at \in {"place", "write", "share"})
    BY <1>0 DEF Places, Call
  <2>2. Goes(p, c)
    BY <1>12 DEF RaiseCopy
  <2>3. /\ UNCHANGED filling /\ id_dir' \in BOOLEAN /\ inode' \in Hash
         /\ DOMAIN by_hash' \subseteq Hash
         /\ \A h \in DOMAIN by_hash' : by_hash'[h] \subseteq File
    BY <1>12 DEF RaiseCopy, TypeOK
  <2> QED BY <1>a, <2>1, <2>2, <2>3
<1>13. CASE Filled(p)
  <2> DEFINE c == [process[p] EXCEPT !.at = "hash"]
  <2>1. c \in Call /\ (c.file # {} => c.at \in {"place", "write", "share"})
    BY <1>0, <1>13 DEF Filled, TypeOK, Call, Places
  <2>2. Goes(p, c)
    BY <1>13 DEF Filled
  <2>3. /\ UNCHANGED filling /\ id_dir' \in BOOLEAN /\ inode' \in Hash
         /\ DOMAIN by_hash' \subseteq Hash
         /\ \A h \in DOMAIN by_hash' : by_hash'[h] \subseteq File
    BY <1>13 DEF Filled, TypeOK
  <2> QED BY <1>a, <2>1, <2>2, <2>3
<1>14. CASE HashDir(p)
  <2> DEFINE c == [process[p] EXCEPT !.at = "hashed", !.hash = inode]
  <2>1. c \in Call /\ (c.file # {} => c.at \in {"place", "write", "share"})
    BY <1>0, <1>14 DEF HashDir, TypeOK, Call, Places, Present
  <2>2. Goes(p, c)
    BY <1>14 DEF HashDir
  <2>3. /\ UNCHANGED filling /\ id_dir' \in BOOLEAN /\ inode' \in Hash
         /\ DOMAIN by_hash' \subseteq Hash
         /\ \A h \in DOMAIN by_hash' : by_hash'[h] \subseteq File
    BY <1>14 DEF HashDir, TypeOK, Hash, Contents
  <2> QED BY <1>a, <2>1, <2>2, <2>3
<1>15. CASE HashDirExists(p)
  <2> DEFINE c == Ended("returned", process[p].hash)
  <2>1. c \in Call /\ (c.file # {} => c.at \in {"place", "write", "share"})
    BY <1>0 DEF Places, Call
  <2>2. Goes(p, c)
    BY <1>15 DEF HashDirExists
  <2>3. /\ UNCHANGED filling /\ id_dir' \in BOOLEAN /\ inode' \in Hash
         /\ DOMAIN by_hash' \subseteq Hash
         /\ \A h \in DOMAIN by_hash' : by_hash'[h] \subseteq File
    BY <1>15 DEF HashDirExists, TypeOK
  <2> QED BY <1>a, <2>1, <2>2, <2>3
<1>16. CASE HashDirMissing(p)
  <2> DEFINE c == [process[p] EXCEPT !.at = "make"]
  <2>1. c \in Call /\ (c.file # {} => c.at \in {"place", "write", "share"})
    BY <1>0, <1>16 DEF HashDirMissing, TypeOK, Call, Places
  <2>2. Goes(p, c)
    BY <1>16 DEF HashDirMissing
  <2>3. /\ UNCHANGED filling /\ id_dir' \in BOOLEAN /\ inode' \in Hash
         /\ DOMAIN by_hash' \subseteq Hash
         /\ \A h \in DOMAIN by_hash' : by_hash'[h] \subseteq File
    BY <1>16 DEF HashDirMissing, TypeOK
  <2> QED BY <1>a, <2>1, <2>2, <2>3
<1>17. CASE MakeHashDir(p)
  <2> DEFINE c == [process[p] EXCEPT !.at = "share", !.todo = Present]
  <2>1. c \in Call /\ (c.file # {} => c.at \in {"place", "write", "share"})
    BY <1>0, <1>17 DEF MakeHashDir, TypeOK, Call, Places, Present
  <2>2. Goes(p, c)
    BY <1>17 DEF MakeHashDir
  <2>3. /\ UNCHANGED filling /\ id_dir' \in BOOLEAN /\ inode' \in Hash
         /\ DOMAIN by_hash' \subseteq Hash
         /\ \A h \in DOMAIN by_hash' : by_hash'[h] \subseteq File
    BY <1>0, <1>17 DEF MakeHashDir, TypeOK, Call, Hash, Contents
  <2> QED BY <1>a, <2>1, <2>2, <2>3
<1>18. CASE SkipShared(p)
  <2>p. PICK f \in process[p].todo : Goes(p, [process[p] EXCEPT !.todo = @ \ {f}])
    BY <1>18 DEF SkipShared
  <2> DEFINE c == [process[p] EXCEPT !.todo = @ \ {f}]
  <2>1. c \in Call /\ (c.file # {} => c.at \in {"place", "write", "share"})
    BY <1>0 DEF TypeOK, Call
  <2>2. Goes(p, c)
    BY <2>p
  <2>3. /\ UNCHANGED filling /\ id_dir' \in BOOLEAN /\ inode' \in Hash
         /\ DOMAIN by_hash' \subseteq Hash
         /\ \A h \in DOMAIN by_hash' : by_hash'[h] \subseteq File
    BY <1>18 DEF SkipShared, TypeOK
  <2> QED BY <1>a, <2>1, <2>2, <2>3
<1>19. CASE PickShared(p)
  <2>p. PICK f \in process[p].todo : Goes(p, [process[p] EXCEPT !.todo = @ \ {f}, !.file = {f}])
    BY <1>19 DEF PickShared
  <2> DEFINE c == [process[p] EXCEPT !.todo = @ \ {f}, !.file = {f}]
  <2>1. c \in Call /\ (c.file # {} => c.at \in {"place", "write", "share"})
    <3>1. /\ process[p].todo \ {f} \in SUBSET File /\ {f} \in SUBSET File
          /\ process[p] \in Call /\ "place" \in Places
      BY <1>0, <2>p DEF Call, Places
    <3>2. c \in Call
      BY <3>1 DEF Call
    <3>3. c.at = "share"
      BY <1>0, <1>19 DEF PickShared, Call
    <3> QED BY <3>2, <3>3
  <2>2. Goes(p, c)
    BY <1>19, <2>p DEF PickShared
  <2>3. /\ UNCHANGED filling /\ id_dir' \in BOOLEAN /\ inode' \in Hash
         /\ DOMAIN by_hash' \subseteq Hash
         /\ \A h \in DOMAIN by_hash' : by_hash'[h] \subseteq File
    BY <1>19, <2>p DEF PickShared, TypeOK, Hash, Contents
  <2> QED BY <1>a, <2>1, <2>2, <2>3
<1>20. CASE ShareFile(p)
  <2> DEFINE c == [process[p] EXCEPT !.file = {}]
  <2>1. c \in Call /\ (c.file # {} => c.at \in {"place", "write", "share"})
    BY <1>0, <1>20 DEF ShareFile, TypeOK, Call, Places, Present
  <2>2. Goes(p, c)
    BY <1>20 DEF ShareFile
  <2>3. /\ UNCHANGED filling /\ id_dir' \in BOOLEAN /\ inode' \in Hash
         /\ DOMAIN by_hash' \subseteq Hash
         /\ \A h \in DOMAIN by_hash' : by_hash'[h] \subseteq File
    BY <1>0, <1>20 DEF ShareFile, TypeOK, Call, Hash, Contents
  <2> QED BY <1>a, <2>1, <2>2, <2>3
<1>21. CASE LoseShare(p)
  <2> DEFINE c == Ended("raised", Whole)
  <2>1. c \in Call /\ (c.file # {} => c.at \in {"place", "write", "share"})
    BY <1>0 DEF Places, Call
  <2>2. Goes(p, c)
    BY <1>21 DEF LoseShare
  <2>3. /\ UNCHANGED filling /\ id_dir' \in BOOLEAN /\ inode' \in Hash
         /\ DOMAIN by_hash' \subseteq Hash
         /\ \A h \in DOMAIN by_hash' : by_hash'[h] \subseteq File
    BY <1>21 DEF LoseShare, TypeOK
  <2> QED BY <1>a, <2>1, <2>2, <2>3
<1>22. CASE Return(p)
  <2> DEFINE c == Ended("returned", process[p].hash)
  <2>1. c \in Call /\ (c.file # {} => c.at \in {"place", "write", "share"})
    BY <1>0 DEF Places, Call
  <2>2. Goes(p, c)
    BY <1>22 DEF Return
  <2>3. /\ UNCHANGED filling /\ id_dir' \in BOOLEAN /\ inode' \in Hash
         /\ DOMAIN by_hash' \subseteq Hash
         /\ \A h \in DOMAIN by_hash' : by_hash'[h] \subseteq File
    BY <1>22 DEF Return, TypeOK
  <2> QED BY <1>a, <2>1, <2>2, <2>3
<1>23. CASE Crash(p)
  BY <1>0, <1>a, <1>23 DEF Crash, Active, TypeOK, Call, Places, Hash, Contents, Present
<1>24. CASE Again(p)
  BY <1>0, <1>a, <1>24 DEF Again, TypeOK, Call, Places, Hash, Contents, Present
<1> QED BY <1>1, <1>2, <1>3, <1>4, <1>5, <1>6, <1>7, <1>8, <1>9, <1>10, <1>11, <1>12, <1>13, <1>14, <1>15, <1>16, <1>17, <1>18, <1>19, <1>20, <1>21, <1>22, <1>23, <1>24 DEF Step

\* What no step takes away: whole files, files, shared names; and a file another
\* process writes does not become whole under its hands.
Grows(p) ==
  /\ UNCHANGED filling
  /\ \A f \in File : inode[f] = "whole" => inode'[f] = "whole"
  /\ \A f \in File : inode[f] # "none" => inode'[f] # "none"
  /\ \A h \in DOMAIN by_hash :
       h \in DOMAIN by_hash' /\ by_hash[h] \subseteq by_hash'[h]
  /\ \A q \in Process \ {p} : process[q].at = "write" =>
       \A f \in process[q].file : inode'[f] \in {"part", "sealed"}

LEMMA DiskGrows ==
  ASSUME IInv, NEW p \in Process, Step(p) \/ Crash(p) \/ Again(p)
  PROVE  Grows(p)
<1>0. /\ inode \in [File -> Contents]
      /\ \A q \in Process : process[q].file \subseteq File
      /\ process[p].hash \in Hash
  BY DEF IInv, TypeOK, Hash, Call
<1>1. CASE LinkFile(p)
  BY <1>0, <1>1 DEF LinkFile, Grows, IInv, SharedStaysWhole, ProcessInv, Knows
<1>2. CASE OpenCopy(p)
  BY <1>0, <1>2 DEF OpenCopy, Grows, IInv, SharedStaysWhole, ProcessInv, Knows
<1>3. CASE CloseCopy(p)
  <2>1. PICK f \in process[p].file :
          inode' = [inode EXCEPT ![f] =
                      IF WrittenByAnother(p, f) THEN "sealed" ELSE "whole"]
    BY <1>3 DEF CloseCopy
  <2>2. f \in File /\ inode[f] \in {"part", "sealed"}
    BY <1>0, <1>3, <2>1 DEF CloseCopy, IInv, SharedStaysWhole
  <2>3. \A q \in Process \ {p} : process[q].at = "write" =>
          \A g \in process[q].file : inode'[g] \in {"part", "sealed"}
    BY <1>0, <2>1, <2>2 DEF WrittenByAnother, IInv, SharedStaysWhole
  <2>4. \A g \in File : /\ inode[g] = "whole" => inode'[g] = "whole"
                        /\ inode[g] # "none" => inode'[g] # "none"
    BY <1>0, <2>1, <2>2
  <2> QED BY <1>3, <2>3, <2>4 DEF CloseCopy, Grows
<1>4. CASE MakeHashDir(p)
  BY <1>0, <1>4 DEF MakeHashDir, Grows, IInv, SharedStaysWhole
<1>5. CASE ShareFile(p)
  BY <1>0, <1>5 DEF ShareFile, Grows, IInv, SharedStaysWhole
<1>6. CASE UNCHANGED <<filling, inode, by_hash>>
  BY <1>0, <1>6 DEF Grows, IInv, SharedStaysWhole
<1> QED
  BY <1>1, <1>2, <1>3, <1>4, <1>5, <1>6
     DEF Step, Crash, Again, Adopt, FindMissing, MakeIdDir, SkipFile, PickFile, LoseLink, CannotOpen, NoteError, RaiseCopy, Filled, HashDir, HashDirExists, HashDirMissing, SkipShared, PickShared, LoseShare, Return

\* The other processes keep what they know of the disk.
LEMMA OthersKeep ==
  ASSUME IInv, NEW p \in Process, NEW c, Goes(p, c), Grows(p),
         NEW q \in Process \ {p}
  PROVE  Knows(q)' /\ process'[q] = process[q]
<1>1. process'[q] = process[q]
  BY DEF IInv, TypeOK, Goes
<1>2. Present \subseteq Present'
  BY DEF Grows, Present
<1>3. process[q].hash \in Hash
  BY DEF IInv, TypeOK, Call
<1> QED BY <1>1, <1>2, <1>3 DEF IInv, ProcessInv, Knows, Grows

\* And so does the process that moves.
LEMMA MoverKnows ==
  ASSUME IInv, NEW p \in Process, Step(p) \/ Crash(p) \/ Again(p), Grows(p)
  PROVE  Knows(p)'
<1> USE WholeType, EndedType
<1>0. /\ process[p] \in Call /\ p \in DOMAIN process /\ Knows(p)
      /\ inode \in [File -> Contents]
  BY DEF IInv, TypeOK, ProcessInv, Hash
<1>1. Present \subseteq Present'
  BY DEF Grows, Present
<1>2. CASE Adopt(p)
  BY <1>0, <1>1, <1>2 DEF Adopt, Goes, Knows, Call, Places, Grows, Present, Ended
<1>3. CASE FindMissing(p)
  BY <1>0, <1>1, <1>3 DEF FindMissing, Goes, Knows, Call, Places, Grows, Present, Ended
<1>4. CASE MakeIdDir(p)
  <2>1. /\ process'[p].at = "fill"
        /\ process'[p].file = process[p].file
    BY <1>0, <1>4 DEF MakeIdDir, Goes, Call
  <2> QED BY <1>0, <1>1, <1>4, <2>1 DEF MakeIdDir, Knows, Grows, Present, Call
<1>5. CASE SkipFile(p)
  BY <1>0, <1>1, <1>5 DEF SkipFile, Goes, Knows, Call, Places, Grows, Present, Ended
<1>6. CASE PickFile(p)
  <2>p. PICK f \in process[p].todo : Goes(p, [process[p] EXCEPT
                    !.at = "place", !.todo = @ \ {f}, !.file = {f}])
    BY <1>6 DEF PickFile
  <2>1. /\ process'[p].at = "place"
        /\ process'[p].file = {f}
    BY <1>0, <1>6, <2>p DEF PickFile, Goes, Call
  <2> QED BY <1>0, <1>1, <1>6, <2>p, <2>1 DEF PickFile, Knows, Grows, Present, Call
<1>7. CASE LinkFile(p)
  <2>1. /\ process'[p].at = "fill"
        /\ process'[p].file = {}
    BY <1>0, <1>7 DEF LinkFile, Goes, Call
  <2> QED BY <1>0, <1>1, <1>7, <2>1 DEF LinkFile, Knows, Grows, Present, Call
<1>8. CASE LoseLink(p)
  BY <1>0, <1>1, <1>8 DEF LoseLink, Goes, Knows, Call, Places, Grows, Present, Ended
<1>9. CASE OpenCopy(p)
  BY <1>0, <1>1, <1>9 DEF OpenCopy, Goes, Knows, Call, Places, Grows, Present, Ended
<1>10. CASE CannotOpen(p)
  BY <1>0, <1>1, <1>10 DEF CannotOpen, Goes, Knows, Call, Places, Grows, Present, Ended
<1>11. CASE NoteError(p)
  <2>1. /\ process'[p].at = "fill"
        /\ process'[p].file = {}
    BY <1>0, <1>11 DEF NoteError, Goes, Call
  <2> QED BY <1>0, <1>1, <1>11, <2>1 DEF NoteError, Knows, Grows, Present, Call
<1>12. CASE CloseCopy(p)
  <2>1. /\ process'[p].at = "fill"
        /\ process'[p].file = {}
    BY <1>0, <1>12 DEF CloseCopy, Goes, Call
  <2> QED BY <1>0, <1>1, <1>12, <2>1 DEF CloseCopy, Knows, Grows, Present, Call
<1>13. CASE RaiseCopy(p)
  BY <1>0, <1>1, <1>13 DEF RaiseCopy, Goes, Knows, Call, Places, Grows, Present, Ended
<1>14. CASE Filled(p)
  BY <1>0, <1>1, <1>14 DEF Filled, Goes, Knows, Call, Places, Grows, Present, Ended
<1>15. CASE HashDir(p)
  <2>1. /\ process'[p].at = "hashed"
        /\ process'[p].file = process[p].file
        /\ process'[p].hash = inode
    BY <1>0, <1>15 DEF HashDir, Goes, Call
  <2> QED BY <1>0, <1>1, <1>15, <2>1 DEF HashDir, Knows, Grows, Present, Call
<1>16. CASE HashDirExists(p)
  BY <1>0, <1>1, <1>16 DEF HashDirExists, Goes, Knows, Call, Places, Grows, Present, Ended
<1>17. CASE HashDirMissing(p)
  BY <1>0, <1>1, <1>17 DEF HashDirMissing, Goes, Knows, Call, Places, Grows, Present, Ended
<1>18. CASE MakeHashDir(p)
  <2>1. /\ process'[p].at = "share"
        /\ process'[p].file = process[p].file
        /\ process'[p].hash = process[p].hash
        /\ process'[p].todo = Present
    BY <1>0, <1>18 DEF MakeHashDir, Goes, Call
  <2>2. process[p].file = {} /\ process[p].hash \in DOMAIN by_hash'
    BY <1>18 DEF MakeHashDir, IInv, TypeOK
  <2> QED BY <1>0, <1>1, <1>18, <2>1, <2>2 DEF MakeHashDir, Knows, Grows, Present, Call
<1>19. CASE SkipShared(p)
  BY <1>0, <1>1, <1>19 DEF SkipShared, Goes, Knows, Call, Places, Grows, Present, Ended
<1>20. CASE PickShared(p)
  <2>p. PICK f \in process[p].todo : /\ f \notin by_hash[process[p].hash]
          /\ Goes(p, [process[p] EXCEPT !.todo = @ \ {f}, !.file = {f}])
    BY <1>20 DEF PickShared
  <2>1. /\ process'[p].at = "share"
        /\ process'[p].file = {f}
        /\ process'[p].hash = process[p].hash
        /\ process'[p].todo = process[p].todo \ {f}
    BY <1>0, <1>20, <2>p DEF PickShared, Goes, Call
  <2> QED BY <1>0, <1>1, <1>20, <2>p, <2>1 DEF PickShared, Knows, Grows, Present, Call
<1>21. CASE ShareFile(p)
  BY <1>0, <1>1, <1>21 DEF ShareFile, Goes, Knows, Call, Places, Grows, Present, Ended
<1>22. CASE LoseShare(p)
  BY <1>0, <1>1, <1>22 DEF LoseShare, Goes, Knows, Call, Places, Grows, Present, Ended
<1>23. CASE Return(p)
  BY <1>0, <1>1, <1>23 DEF Return, Goes, Knows, Call, Places, Grows, Present, Ended
<1>24. CASE Crash(p)
  BY <1>0, <1>1, <1>24 DEF Crash, Goes, Knows, Call, Places, Grows, Present, Ended
<1>25. CASE Again(p)
  BY <1>0, <1>1, <1>25 DEF Again, Goes, Knows, Call, Places, Grows, Present, Ended
<1> QED BY <1>2, <1>3, <1>4, <1>5, <1>6, <1>7, <1>8, <1>9, <1>10, <1>11, <1>12, <1>13, <1>14, <1>15, <1>16, <1>17, <1>18, <1>19, <1>20, <1>21, <1>22, <1>23, <1>24, <1>25 DEF Step

\* A process comes to write a file in one way only.
LEMMA OnlyOpenCopyWrites ==
  ASSUME IInv, NEW p \in Process, Step(p) \/ Crash(p) \/ Again(p),
         process'[p].at = "write"
  PROVE  OpenCopy(p)
<1> USE WholeType, EndedType
<1>0. process[p] \in Call /\ p \in DOMAIN process
  BY DEF IInv, TypeOK
<1>1. ~Adopt(p)
  BY <1>0 DEF Adopt, Goes, Call, Places
<1>2. ~FindMissing(p)
  BY <1>0 DEF FindMissing, Goes, Call, Places
<1>3. ASSUME MakeIdDir(p) PROVE FALSE
  <2>1. process'[p].at = "fill"
    BY <1>0, <1>3 DEF MakeIdDir, Goes, Call
  <2> QED BY <2>1
<1>4. ~SkipFile(p)
  BY <1>0 DEF SkipFile, Goes, Call, Places
<1>5. ASSUME PickFile(p) PROVE FALSE
  <2>1. PICK f \in process[p].todo : Goes(p, [process[p] EXCEPT
                    !.at = "place", !.todo = @ \ {f}, !.file = {f}])
    BY <1>5 DEF PickFile
  <2>2. process'[p].at = "place"
    BY <1>0, <1>5, <2>1 DEF PickFile, Goes, Call
  <2> QED BY <2>2
<1>6. ASSUME LinkFile(p) PROVE FALSE
  <2>1. process'[p].at = "fill"
    BY <1>0, <1>6 DEF LinkFile, Goes, Call
  <2> QED BY <2>1
<1>7. ~LoseLink(p)
  BY <1>0 DEF LoseLink, Goes, Call, Places
<1>8. ~CannotOpen(p)
  BY <1>0 DEF CannotOpen, Goes, Call, Places
<1>9. ASSUME NoteError(p) PROVE FALSE
  <2>1. process'[p].at = "fill"
    BY <1>0, <1>9 DEF NoteError, Goes, Call
  <2> QED BY <2>1
<1>10. ASSUME CloseCopy(p) PROVE FALSE
  <2>1. process'[p].at = "fill"
    BY <1>0, <1>10 DEF CloseCopy, Goes, Call
  <2> QED BY <2>1
<1>11. ~RaiseCopy(p)
  BY <1>0 DEF RaiseCopy, Goes, Call, Places
<1>12. ~Filled(p)
  BY <1>0 DEF Filled, Goes, Call, Places
<1>13. ASSUME HashDir(p) PROVE FALSE
  <2>1. process'[p].at = "hashed"
    BY <1>0, <1>13 DEF HashDir, Goes, Call
  <2> QED BY <2>1
<1>14. ~HashDirExists(p)
  BY <1>0 DEF HashDirExists, Goes, Call, Places
<1>15. ~HashDirMissing(p)
  BY <1>0 DEF HashDirMissing, Goes, Call, Places
<1>16. ASSUME MakeHashDir(p) PROVE FALSE
  <2>1. process'[p].at = "share"
    BY <1>0, <1>16 DEF MakeHashDir, Goes, Call
  <2> QED BY <2>1
<1>17. ~SkipShared(p)
  BY <1>0 DEF SkipShared, Goes, Call, Places
<1>18. ASSUME PickShared(p) PROVE FALSE
  <2>1. PICK f \in process[p].todo : Goes(p, [process[p] EXCEPT !.todo = @ \ {f}, !.file = {f}])
    BY <1>18 DEF PickShared
  <2>2. process'[p].at = "share"
    BY <1>0, <1>18, <2>1 DEF PickShared, Goes, Call
  <2> QED BY <2>2
<1>19. ~ShareFile(p)
  BY <1>0 DEF ShareFile, Goes, Call, Places
<1>20. ~LoseShare(p)
  BY <1>0 DEF LoseShare, Goes, Call, Places
<1>21. ~Return(p)
  BY <1>0 DEF Return, Goes, Call, Places
<1>22. ~Crash(p)
  BY <1>0 DEF Crash, Active, Goes, Call, Places
<1>23. ~Again(p)
  BY <1>0 DEF Again, Goes, Call, Places
<1> QED BY <1>1, <1>2, <1>3, <1>4, <1>5, <1>6, <1>7, <1>8, <1>9, <1>10, <1>11, <1>12, <1>13, <1>14, <1>15, <1>16, <1>17, <1>18, <1>19, <1>20, <1>21, <1>22, <1>23 DEF Step

\* What is under by_hash stays true.
LEMMA SharedStep ==
  ASSUME IInv, NEW p \in Process, Step(p) \/ Crash(p) \/ Again(p),
         Grows(p), \A q \in Process \ {p} : process'[q] = process[q]
  PROVE  SharedStaysWhole'
<1>0. /\ process[p] \in Call /\ Knows(p) /\ p \in DOMAIN process
      /\ inode \in [File -> Contents] /\ DOMAIN by_hash \subseteq Hash
  BY DEF IInv, TypeOK, ProcessInv, Hash
<1>1. Present \subseteq Present'
  BY DEF Grows, Present
<1>2. ASSUME NEW h \in DOMAIN by_hash'
      PROVE  /\ by_hash'[h] \subseteq Present'
             /\ \A f \in File : h[f] = "whole" => inode'[f] = "whole"
  <2>1. CASE MakeHashDir(p)
    BY <1>0, <1>1, <2>1 DEF MakeHashDir, IInv, SharedStaysWhole, Knows
  <2>2. CASE ShareFile(p)
    BY <1>0, <1>1, <2>2 DEF ShareFile, IInv, SharedStaysWhole, Knows
  <2>3. CASE UNCHANGED by_hash
    BY <1>1, <2>3 DEF IInv, SharedStaysWhole, Grows
  <2> QED
    BY <2>1, <2>2, <2>3 DEF Step, Crash, Again, Adopt, FindMissing, MakeIdDir, SkipFile, PickFile, LinkFile, LoseLink, OpenCopy, CannotOpen, NoteError, CloseCopy, RaiseCopy, Filled, HashDir, HashDirExists, HashDirMissing, SkipShared, PickShared, LoseShare, Return
<1>3. ASSUME process'[p].at = "write"
      PROVE  \A f \in process'[p].file : inode'[f] \in {"part", "sealed"}
  <2>1. OpenCopy(p)
    BY <1>3, OnlyOpenCopyWrites
  <2>2. process'[p].file = process[p].file
    BY <1>0, <2>1 DEF OpenCopy, Goes, Call
  <2> QED BY <1>0, <2>1, <2>2 DEF OpenCopy, Knows, Call
<1> QED BY <1>2, <1>3 DEF SharedStaysWhole, Grows

-----------------------------------------------------------------------------
(* Theorems *)

\* Every step, a crash among them, keeps the invariant and the store.
LEMMA NextStep ==
  ASSUME IInv, Next
  PROVE  /\ IInv'
         /\ \A f \in File : inode[f] = "whole" => inode'[f] = "whole"
         /\ \A h \in DOMAIN by_hash :
              h \in DOMAIN by_hash' /\ by_hash[h] \subseteq by_hash'[h]
<1>0. PICK p \in Process : Run(p) \/ Kill(p) \/ (Again(p) /\ UNCHANGED <<kills, contended>>)
  BY DEF Next
<1>1. Step(p) \/ Crash(p) \/ Again(p)
  BY <1>0 DEF Run, Kill
<1>2. Grows(p)
  BY <1>1, DiskGrows
<1>3. \E c : Goes(p, c)
  BY <1>1
     DEF Step, Crash, Again, Adopt, FindMissing, MakeIdDir, SkipFile, PickFile,
         LinkFile, LoseLink, OpenCopy, CannotOpen, NoteError, CloseCopy,
         RaiseCopy, Filled, HashDir, HashDirExists, HashDirMissing,
         MakeHashDir, SkipShared, PickShared, ShareFile, LoseShare, Return
<1>4. ASSUME NEW q \in Process \ {p}
      PROVE  Knows(q)' /\ process'[q] = process[q]
  BY <1>2, <1>3, OthersKeep
<1>5. Knows(p)'
  BY <1>1, <1>2, MoverKnows
<1>6. ProcessInv'
  BY <1>4, <1>5 DEF ProcessInv
<1>7. SharedStaysWhole'
  BY <1>1, <1>2, <1>4, SharedStep
<1>8. TypeOK'
  <2>1. HistoryOK
    BY DEF IInv, TypeOK
  <2>2. kills' \in 0..MaxKills
    <3>1. kills \in 0..MaxKills /\ (kills' = kills \/ (kills < MaxKills /\ kills' = kills + 1))
      BY <1>0, <2>1 DEF Run, Kill, HistoryOK
    <3> QED BY <3>1, InternalizeAssumption
  <2>3. contended' \in BOOLEAN
    BY <1>0, <2>1, Zenon DEF Run, Kill, HistoryOK
  <2>4. HistoryOK'
    BY <2>2, <2>3 DEF HistoryOK
  <2> QED BY <1>1, <2>4, TypeStep DEF IInv
<1> QED BY <1>2, <1>6, <1>7, <1>8 DEF IInv, Grows

\* The invariant holds of every behaviour.
THEOREM Invariance == Spec => []IInv
<1>1. Init => IInv
  BY InitInv
<1>2. IInv /\ [Next]_vars => IInv'
  <2> SUFFICES ASSUME IInv, [Next]_vars PROVE IInv'
    OBVIOUS
  <2>1. CASE Next
    BY <2>1, NextStep
  <2>2. CASE UNCHANGED vars
    BY <2>2 DEF vars, IInv, TypeOK, HistoryOK, ProcessInv, Knows, SharedStaysWhole, Present, Call, Hash
  <2> QED BY <2>1, <2>2
<1> QED BY <1>1, <1>2, PTL DEF Spec

\* Every variable keeps its type, for any number of processes and files.
THEOREM TypeCorrect == Spec => []TypeOK
<1>1. IInv => TypeOK
  BY DEF IInv
<1> QED BY <1>1, Invariance, PTL

\* What is shared under by_hash stays whole, however many processes race and
\* wherever they are killed.
THEOREM SharedWhole == Spec => []SharedStaysWhole
<1>1. IInv => SharedStaysWhole
  BY DEF IInv
<1> QED BY <1>1, Invariance, PTL

\* No step of any process, and no crash, takes content from the store.
THEOREM NothingLost == Spec => StoreOnlyGrows
<1> DEFINE Keeps ==
      /\ \A f \in File : inode[f] = "whole" => inode'[f] = "whole"
      /\ \A h \in DOMAIN by_hash :
           h \in DOMAIN by_hash' /\ by_hash[h] \subseteq by_hash'[h]
<1>1. IInv /\ [Next]_vars => [Keeps]_vars
  BY NextStep
<1>2. Spec => [][Keeps]_vars
  BY <1>1, Invariance, PTL DEF Spec
<1> QED BY <1>2 DEF StoreOnlyGrows

-----------------------------------------------------------------------------
(* Survivors complete: no process is killed *)

\* p fills by_id/<id>, and nothing it holds will make it raise.
Going(p) ==
  \/ process[p].at \in {"mkdir", "fill", "write"}
  \/ /\ process[p].at = "place"
     /\ \/ filling = "copytree"
        \/ \A f \in process[p].file :
             inode[f] = "none" \/ (filling # "link" /\ inode[f] = "part")

\* Whoever fills has all missing files before it; a file that is being copied
\* has a writer; and while a file is missing someone goes on: the process that
\* placed the last file has nothing in its hands that could make it raise.
FillInv ==
  /\ \A p \in Process : process[p].at \in {"fill", "place", "write"} =>
       \A f \in File : inode[f] = "none" => f \in process[p].todo \cup process[p].file
  /\ \A f \in File : inode[f] \in {"part", "sealed"} =>
       \E p \in Process : process[p].at = "write" /\ f \in process[p].file
  /\ (id_dir /\ inode # Whole) => \E p \in Process : Going(p)

\* The actions that keep a process filling.
LEMMA FillMoves ==
  ASSUME IInv, NEW p \in Process
  PROVE  /\ MakeIdDir(p) => process'[p].at = "fill" /\ process'[p].todo = File
         /\ SkipFile(p) => \E f \in process[p].todo \cap Present :
              /\ process'[p].at = "fill" /\ process'[p].file = process[p].file
              /\ process'[p].todo = process[p].todo \ {f}
         /\ PickFile(p) => \E f \in process[p].todo :
              /\ filling = "copytree" \/ f \notin Present
              /\ process'[p].at = "place" /\ process'[p].file = {f}
              /\ process'[p].todo = process[p].todo \ {f}
         /\ OpenCopy(p) =>
              /\ process'[p].at = "write" /\ process'[p].file = process[p].file
              /\ process'[p].todo = process[p].todo
         /\ LinkFile(p) \/ NoteError(p) \/ CloseCopy(p) =>
              /\ process'[p].at = "fill" /\ process'[p].file = {}
              /\ process'[p].todo = process[p].todo
<1>0. process[p] \in Call /\ p \in DOMAIN process
  BY DEF IInv, TypeOK
<1>1. ASSUME MakeIdDir(p)
      PROVE  process'[p].at = "fill" /\ process'[p].todo = File
  BY <1>0, <1>1 DEF MakeIdDir, Goes, Call
<1>2. ASSUME SkipFile(p)
      PROVE  \E f \in process[p].todo \cap Present :
               /\ process'[p].at = "fill" /\ process'[p].file = process[p].file
               /\ process'[p].todo = process[p].todo \ {f}
  <2>1. PICK f \in process[p].todo \cap Present :
          Goes(p, [process[p] EXCEPT !.todo = @ \ {f}])
    BY <1>2 DEF SkipFile
  <2>2. /\ process'[p].at = "fill" /\ process'[p].file = process[p].file
        /\ process'[p].todo = process[p].todo \ {f}
    BY <1>0, <1>2, <2>1 DEF SkipFile, Goes, Call
  <2> QED BY <2>2
<1>3. ASSUME PickFile(p)
      PROVE  \E f \in process[p].todo :
               /\ filling = "copytree" \/ f \notin Present
               /\ process'[p].at = "place" /\ process'[p].file = {f}
               /\ process'[p].todo = process[p].todo \ {f}
  <2>1. PICK f \in process[p].todo :
          /\ filling = "copytree" \/ f \notin Present
          /\ Goes(p, [process[p] EXCEPT
                       !.at = "place", !.todo = @ \ {f}, !.file = {f}])
    BY <1>3 DEF PickFile
  <2>2. /\ process'[p].at = "place" /\ process'[p].file = {f}
        /\ process'[p].todo = process[p].todo \ {f}
    BY <1>0, <2>1 DEF Goes, Call
  <2> QED BY <2>1, <2>2
<1>4. ASSUME OpenCopy(p)
      PROVE  /\ process'[p].at = "write" /\ process'[p].file = process[p].file
             /\ process'[p].todo = process[p].todo
  BY <1>0, <1>4 DEF OpenCopy, Goes, Call
<1>5. ASSUME LinkFile(p) \/ NoteError(p) \/ CloseCopy(p)
      PROVE  /\ process'[p].at = "fill" /\ process'[p].file = {}
             /\ process'[p].todo = process[p].todo
  <2>1. CASE LinkFile(p)
    BY <1>0, <2>1 DEF LinkFile, Goes, Call
  <2>2. CASE NoteError(p)
    BY <1>0, <2>2 DEF NoteError, Goes, Call
  <2>3. CASE CloseCopy(p)
    BY <1>0, <2>3 DEF CloseCopy, Goes, Call
  <2> QED BY <1>5, <2>1, <2>2, <2>3
<1> QED BY <1>1, <1>2, <1>3, <1>4, <1>5

\* The other actions leave by_id/<id> alone, and the mover fills no more, or
\* comes to make the directory.
LEMMA OtherMoves ==
  ASSUME IInv, NEW p \in Process,
         \/ Adopt(p) \/ FindMissing(p) \/ LoseLink(p) \/ CannotOpen(p)
         \/ RaiseCopy(p) \/ Filled(p) \/ HashDir(p) \/ HashDirExists(p)
         \/ HashDirMissing(p) \/ MakeHashDir(p) \/ SkipShared(p)
         \/ PickShared(p) \/ ShareFile(p) \/ LoseShare(p) \/ Return(p)
         \/ Again(p)
  PROVE  /\ UNCHANGED <<filling, id_dir, inode>>
         /\ process'[p].at \notin {"fill", "place", "write"}
         /\ process[p].at # "write"
<1> USE WholeType, EndedType
<1>0. process[p] \in Call /\ p \in DOMAIN process
  BY DEF IInv, TypeOK
<1>1. CASE Adopt(p)
  BY <1>0, <1>1 DEF Adopt, Goes, Call
<1>2. CASE FindMissing(p)
  BY <1>0, <1>2 DEF FindMissing, Goes, Call
<1>3. CASE LoseLink(p) \/ CannotOpen(p) \/ RaiseCopy(p) \/ LoseShare(p)
  BY <1>0, <1>3 DEF LoseLink, CannotOpen, RaiseCopy, LoseShare, Goes, Places
<1>4. CASE Filled(p)
  BY <1>0, <1>4 DEF Filled, Goes, Call
<1>5. CASE HashDir(p)
  <2>1. process'[p].at = "hashed"
    BY <1>0, <1>5 DEF HashDir, Goes, Call
  <2> QED BY <1>5, <2>1 DEF HashDir
<1>6. CASE HashDirExists(p) \/ Return(p) \/ Again(p)
  BY <1>0, <1>6 DEF HashDirExists, Return, Again, Goes, Places, Call
<1>7. CASE HashDirMissing(p)
  BY <1>0, <1>7 DEF HashDirMissing, Goes, Call
<1>8. CASE MakeHashDir(p)
  <2>1. process'[p].at = "share"
    BY <1>0, <1>8 DEF MakeHashDir, Goes, Call
  <2> QED BY <1>8, <2>1 DEF MakeHashDir
<1>9. CASE SkipShared(p)
  BY <1>0, <1>9 DEF SkipShared, Goes, Call
<1>10. CASE PickShared(p)
  <2>1. PICK f \in process[p].todo :
          Goes(p, [process[p] EXCEPT !.todo = @ \ {f}, !.file = {f}])
    BY <1>10 DEF PickShared
  <2>2. process'[p].at = "share"
    BY <1>0, <1>10, <2>1 DEF PickShared, Goes, Call
  <2> QED BY <1>10, <2>2 DEF PickShared
<1>11. CASE ShareFile(p)
  BY <1>0, <1>11 DEF ShareFile, Goes, Call
<1> QED
  BY <1>1, <1>2, <1>3, <1>4, <1>5, <1>6, <1>7, <1>8, <1>9, <1>10, <1>11

\* The step of one process keeps FillInv.
LEMMA FillStep ==
  ASSUME IInv, FillInv, NEW p \in Process, Step(p) \/ Again(p),
         \A q \in Process \ {p} : process'[q] = process[q]
  PROVE  FillInv'
<1>0. /\ inode \in [File -> Contents] /\ p \in DOMAIN process
      /\ \A q \in Process : Knows(q) /\ process[q] \in Call
      /\ \A q \in Process : process[q].at = "fill" => process[q].file = {}
  BY DEF IInv, TypeOK, ProcessInv, Hash
<1>g. Grows(p)
  BY DiskGrows
<1> DEFINE Before(q) ==
      process[q].at \in {"fill", "place", "write"} =>
        \A f \in File : inode[f] = "none" => f \in process[q].todo \cup process[q].file
<1> DEFINE Copied ==
      \A f \in File : inode[f] \in {"part", "sealed"} =>
        \E q \in Process : process[q].at = "write" /\ f \in process[q].file
<1> DEFINE Someone == (id_dir /\ inode # Whole) => \E q \in Process : Going(q)
<1>1. ASSUME NEW q \in Process \ {p} PROVE Before(q)'
  BY <1>g, <1>0 DEF FillInv, Grows
<1>2. ASSUME Going(p)', Before(p)', Copied'
      PROVE  FillInv'
  BY <1>1, <1>2 DEF FillInv
<1>3. CASE MakeIdDir(p)
  <2>1. process'[p].at = "fill" /\ process'[p].todo = File /\ UNCHANGED <<filling, inode>>
    BY <1>3, FillMoves DEF MakeIdDir
  <2>2. Copied'
    BY <1>3, <2>1 DEF FillInv, MakeIdDir
  <2> QED BY <1>2, <2>1, <2>2 DEF Going
<1>4. CASE SkipFile(p)
  <2>1. PICK f \in process[p].todo \cap Present :
          /\ process'[p].at = "fill" /\ process'[p].file = process[p].file
          /\ process'[p].todo = process[p].todo \ {f}
    BY <1>4, FillMoves
  <2>2. Copied' /\ Before(p)'
    BY <1>4, <2>1 DEF FillInv, SkipFile, Present
  <2> QED BY <1>2, <2>1, <2>2 DEF Going
<1>5. CASE PickFile(p)
  <2>1. PICK f \in process[p].todo :
          /\ filling = "copytree" \/ f \notin Present
          /\ process'[p].at = "place" /\ process'[p].file = {f}
          /\ process'[p].todo = process[p].todo \ {f}
    BY <1>5, FillMoves
  <2>2. f \in File /\ UNCHANGED <<filling, inode>>
    BY <1>0, <1>5 DEF PickFile, Call
  <2>3. Copied'
    BY <1>5, <2>1, <2>2 DEF FillInv, PickFile
  <2>4. Before(p)'
    BY <1>0, <1>5, <2>1, <2>2 DEF FillInv, PickFile
  <2> QED BY <1>2, <2>1, <2>2, <2>3, <2>4 DEF Going, Present
<1>6. CASE LinkFile(p)
  <2>1. /\ process'[p].at = "fill" /\ process'[p].file = {}
        /\ process'[p].todo = process[p].todo
    BY <1>6, FillMoves
  <2>2. PICK f \in process[p].file :
          inode[f] = "none" /\ inode' = [inode EXCEPT ![f] = "whole"]
    BY <1>6 DEF LinkFile
  <2>3. Copied'
    BY <1>0, <1>6, <2>1, <2>2 DEF FillInv, LinkFile
  <2>4. Before(p)'
    BY <1>0, <1>6, <2>1, <2>2 DEF FillInv, LinkFile, Knows
  <2> QED BY <1>2, <2>1, <2>3, <2>4 DEF Going
<1>7. CASE OpenCopy(p)
  <2>1. /\ process'[p].at = "write" /\ process'[p].file = process[p].file
        /\ process'[p].todo = process[p].todo
    BY <1>7, FillMoves
  <2>2. PICK f \in process[p].file :
          inode[f] \in {"none", "part"} /\ inode' = [inode EXCEPT ![f] = "part"]
    BY <1>7 DEF OpenCopy
  <2>3. Copied'
    <3> SUFFICES ASSUME NEW g \in File, inode'[g] \in {"part", "sealed"}
                 PROVE  \E q \in Process : process'[q].at = "write" /\ g \in process'[q].file
      OBVIOUS
    <3>1. CASE g = f
      BY <2>1, <2>2, <3>1
    <3>2. CASE g # f
      <4>1. inode[g] \in {"part", "sealed"}
        BY <1>0, <2>2, <3>2
      <4>2. PICK q \in Process : process[q].at = "write" /\ g \in process[q].file
        BY <4>1 DEF FillInv
      <4>3. q # p
        BY <1>7, <4>2 DEF OpenCopy
      <4> QED BY <4>2, <4>3
    <3> QED BY <3>1, <3>2
  <2>4. Before(p)'
    BY <1>0, <1>7, <2>1, <2>2 DEF FillInv, OpenCopy
  <2> QED BY <1>2, <2>1, <2>3, <2>4 DEF Going
<1>8. CASE NoteError(p)
  <2>1. /\ process'[p].at = "fill" /\ process'[p].file = {}
        /\ process'[p].todo = process[p].todo /\ inode' = inode
    BY <1>8, FillMoves DEF NoteError
  <2>2. Copied'
    BY <1>8, <2>1 DEF FillInv, NoteError
  <2>3. Before(p)'
    BY <1>0, <1>8, <2>1 DEF FillInv, NoteError, Unopenable, Knows
  <2> QED BY <1>2, <2>1, <2>2, <2>3 DEF Going
<1>9. CASE CloseCopy(p)
  <2>1. /\ process'[p].at = "fill" /\ process'[p].file = {}
        /\ process'[p].todo = process[p].todo
    BY <1>9, FillMoves
  <2>2. PICK f \in process[p].file :
          inode' = [inode EXCEPT ![f] =
                      IF WrittenByAnother(p, f) THEN "sealed" ELSE "whole"]
    BY <1>9 DEF CloseCopy
  <2>3. Copied'
    <3> SUFFICES ASSUME NEW g \in File, inode'[g] \in {"part", "sealed"}
                 PROVE  \E q \in Process : process'[q].at = "write" /\ g \in process'[q].file
      OBVIOUS
    <3>1. CASE g = f
      BY <1>0, <2>2, <3>1 DEF WrittenByAnother
    <3>2. CASE g # f
      <4>1. inode[g] \in {"part", "sealed"}
        BY <1>0, <2>2, <3>2
      <4>2. PICK q \in Process : process[q].at = "write" /\ g \in process[q].file
        BY <4>1 DEF FillInv
      <4>3. q # p
        BY <1>0, <2>2, <3>2, <4>2 DEF Knows
      <4> QED BY <4>2, <4>3
    <3> QED BY <3>1, <3>2
  <2>4. Before(p)'
    BY <1>0, <1>9, <2>1, <2>2 DEF FillInv, CloseCopy, Knows
  <2> QED BY <1>2, <2>1, <2>3, <2>4 DEF Going
<1>10. CASE \/ Adopt(p) \/ FindMissing(p) \/ LoseLink(p) \/ CannotOpen(p)
            \/ RaiseCopy(p) \/ Filled(p) \/ HashDir(p) \/ HashDirExists(p)
            \/ HashDirMissing(p) \/ MakeHashDir(p) \/ SkipShared(p)
            \/ PickShared(p) \/ ShareFile(p) \/ LoseShare(p) \/ Return(p)
            \/ Again(p)
  <2>1. /\ UNCHANGED <<filling, id_dir, inode>>
        /\ process'[p].at \notin {"fill", "place", "write"}
        /\ process[p].at # "write"
    BY <1>10, OtherMoves
  <2>2. Copied' /\ Before(p)'
    BY <2>1 DEF FillInv
  <2>3. ASSUME NEW q \in Process, q # p, Going(q)
        PROVE  Going(q)'
    BY <2>1, <2>3 DEF Going
  <2>4. ASSUME inode # Whole, Going(p)
        PROVE  \E q \in Process : q # p /\ Going(q)
    <3>1. RaiseCopy(p) \/ Filled(p)
      BY <1>0, <1>10, <2>4
         DEF Going, Adopt, FindMissing, LoseLink, CannotOpen, HashDir,
             HashDirExists, HashDirMissing, MakeHashDir, SkipShared,
             PickShared, ShareFile, LoseShare, Return, Again, Unopenable
    <3>2. \A f \in File : inode[f] # "none"
      BY <1>0, <3>1 DEF RaiseCopy, Filled, FillInv
    <3>3. PICK f \in File : inode[f] # "whole"
      BY <1>0, <2>4 DEF Whole
    <3>4. inode[f] \in {"part", "sealed"}
      BY <1>0, <3>2, <3>3 DEF Contents
    <3>5. PICK q \in Process : process[q].at = "write" /\ f \in process[q].file
      BY <3>4 DEF FillInv
    <3> QED BY <2>1, <3>5 DEF Going
  <2>5. Someone'
    BY <2>1, <2>3, <2>4 DEF FillInv
  <2> QED BY <1>1, <2>2, <2>5 DEF FillInv
<1> QED
  BY <1>3, <1>4, <1>5, <1>6, <1>7, <1>8, <1>9, <1>10 DEF Step

\* p fills by_hash/<h>, and nothing it holds will make it raise.
GoingTo(p, h) ==
  /\ process[p].hash = h
  /\ \/ process[p].at = "make"
     \/ process[p].at = "share" /\ process[p].file \cap by_hash[h] = {}

\* The same of the files an address names and its directory lacks.
HashInv ==
  /\ \A p \in Process : process[p].at = "share" =>
       \A f \in File : process[p].hash[f] # "none" =>
         f \in by_hash[process[p].hash] \cup process[p].todo \cup process[p].file
  /\ \A h \in DOMAIN by_hash :
       (\E f \in File : h[f] # "none" /\ f \notin by_hash[h]) =>
         \E p \in Process : GoingTo(p, h)

\* The actions that keep a process sharing.
LEMMA ShareMoves ==
  ASSUME IInv, NEW p \in Process
  PROVE  /\ MakeHashDir(p) =>
              /\ process'[p].at = "share" /\ process'[p].file = {}
              /\ process'[p].todo = Present /\ process'[p].hash = process[p].hash
         /\ SkipShared(p) => \E f \in process[p].todo \cap by_hash[process[p].hash] :
              /\ process'[p].at = "share" /\ process'[p].file = {}
              /\ process'[p].todo = process[p].todo \ {f}
              /\ process'[p].hash = process[p].hash
         /\ PickShared(p) => \E f \in process[p].todo \ by_hash[process[p].hash] :
              /\ process'[p].at = "share" /\ process'[p].file = {f}
              /\ process'[p].todo = process[p].todo \ {f}
              /\ process'[p].hash = process[p].hash
         /\ ShareFile(p) =>
              /\ process'[p].at = "share" /\ process'[p].file = {}
              /\ process'[p].todo = process[p].todo
              /\ process'[p].hash = process[p].hash
<1>0. process[p] \in Call /\ p \in DOMAIN process
  BY DEF IInv, TypeOK
<1>1. ASSUME MakeHashDir(p)
      PROVE  /\ process'[p].at = "share" /\ process'[p].file = {}
             /\ process'[p].todo = Present /\ process'[p].hash = process[p].hash
  <2>1. process[p].file = {}
    BY <1>1 DEF MakeHashDir, IInv, TypeOK
  <2> QED BY <1>0, <1>1, <2>1 DEF MakeHashDir, Goes, Call
<1>2. ASSUME SkipShared(p)
      PROVE  \E f \in process[p].todo \cap by_hash[process[p].hash] :
               /\ process'[p].at = "share" /\ process'[p].file = {}
               /\ process'[p].todo = process[p].todo \ {f}
               /\ process'[p].hash = process[p].hash
  <2>1. PICK f \in process[p].todo \cap by_hash[process[p].hash] :
          Goes(p, [process[p] EXCEPT !.todo = @ \ {f}])
    BY <1>2 DEF SkipShared
  <2>2. /\ process'[p].at = "share" /\ process'[p].file = {}
        /\ process'[p].todo = process[p].todo \ {f}
        /\ process'[p].hash = process[p].hash
    BY <1>0, <1>2, <2>1 DEF SkipShared, Goes, Call
  <2> QED BY <2>2
<1>3. ASSUME PickShared(p)
      PROVE  \E f \in process[p].todo \ by_hash[process[p].hash] :
               /\ process'[p].at = "share" /\ process'[p].file = {f}
               /\ process'[p].todo = process[p].todo \ {f}
               /\ process'[p].hash = process[p].hash
  <2>1. PICK f \in process[p].todo \ by_hash[process[p].hash] :
          Goes(p, [process[p] EXCEPT !.todo = @ \ {f}, !.file = {f}])
    BY <1>3 DEF PickShared
  <2>2. /\ process'[p].at = "share" /\ process'[p].file = {f}
        /\ process'[p].todo = process[p].todo \ {f}
        /\ process'[p].hash = process[p].hash
    BY <1>0, <1>3, <2>1 DEF PickShared, Goes, Call
  <2> QED BY <2>2
<1>4. ASSUME ShareFile(p)
      PROVE  /\ process'[p].at = "share" /\ process'[p].file = {}
             /\ process'[p].todo = process[p].todo
             /\ process'[p].hash = process[p].hash
  BY <1>0, <1>4 DEF ShareFile, Goes, Call
<1> QED BY <1>1, <1>2, <1>3, <1>4

\* The other actions leave by_hash alone, and the mover does not share.
LEMMA SharesNot ==
  ASSUME IInv, NEW p \in Process, Step(p) \/ Again(p),
         ~(MakeHashDir(p) \/ SkipShared(p) \/ PickShared(p) \/ ShareFile(p))
  PROVE  UNCHANGED by_hash /\ process'[p].at # "share"
<1> USE WholeType, EndedType
<1>0. process[p] \in Call /\ p \in DOMAIN process
  BY DEF IInv, TypeOK
<1>1. CASE \/ MakeIdDir(p) \/ SkipFile(p) \/ PickFile(p) \/ OpenCopy(p)
           \/ LinkFile(p) \/ NoteError(p) \/ CloseCopy(p)
  BY <1>1, FillMoves
     DEF MakeIdDir, SkipFile, PickFile, OpenCopy, LinkFile, NoteError, CloseCopy
<1>2. CASE Adopt(p) \/ FindMissing(p) \/ Filled(p) \/ HashDirMissing(p)
  BY <1>0, <1>2 DEF Adopt, FindMissing, Filled, HashDirMissing, Goes, Call
<1>3. CASE LoseLink(p) \/ CannotOpen(p) \/ RaiseCopy(p) \/ LoseShare(p)
  BY <1>0, <1>3 DEF LoseLink, CannotOpen, RaiseCopy, LoseShare, Goes, Places
<1>4. CASE HashDir(p)
  <2>1. process'[p].at = "hashed"
    BY <1>0, <1>4 DEF HashDir, Goes, Call
  <2> QED BY <1>4, <2>1 DEF HashDir
<1>5. CASE HashDirExists(p) \/ Return(p) \/ Again(p)
  BY <1>0, <1>5 DEF HashDirExists, Return, Again, Goes, Places, Call
<1> QED BY <1>1, <1>2, <1>3, <1>4, <1>5 DEF Step

\* The step of one process keeps HashInv.
LEMMA HashStep ==
  ASSUME IInv, HashInv, NEW p \in Process, Step(p) \/ Again(p),
         \A q \in Process \ {p} : process'[q] = process[q]
  PROVE  HashInv'
<1>0. /\ p \in DOMAIN process
      /\ \A q \in Process : Knows(q) /\ process[q] \in Call
  BY DEF IInv, TypeOK, ProcessInv
<1>g. Grows(p)
  BY DiskGrows
<1> DEFINE Before(q) ==
      process[q].at = "share" =>
        \A f \in File : process[q].hash[f] # "none" =>
          f \in by_hash[process[q].hash] \cup process[q].todo \cup process[q].file
<1> DEFINE Someone(h) ==
      (\E f \in File : h[f] # "none" /\ f \notin by_hash[h]) =>
        \E q \in Process : GoingTo(q, h)
<1>1. ASSUME NEW q \in Process \ {p} PROVE Before(q)'
  BY <1>g, <1>0 DEF HashInv, Grows, Knows
<1>2. ASSUME Before(p)', \A h \in DOMAIN by_hash' : Someone(h)'
      PROVE  HashInv'
  BY <1>1, <1>2 DEF HashInv
<1>3. ASSUME NEW h \in DOMAIN by_hash, by_hash'[h] = by_hash[h],
             ~GoingTo(p, h) \/ GoingTo(p, h)'
      PROVE  Someone(h)'
  BY <1>3 DEF HashInv, GoingTo
<1>4. CASE MakeHashDir(p)
  <2>0. PICK h : h = process[p].hash
    OBVIOUS
  <2>1. /\ process'[p].at = "share" /\ process'[p].file = {}
        /\ process'[p].todo = Present /\ process'[p].hash = h
    BY <2>0, <1>4, ShareMoves
  <2>2. /\ DOMAIN by_hash' = DOMAIN by_hash \cup {h}
        /\ \A g \in DOMAIN by_hash : by_hash'[g] = by_hash[g]
    BY <2>0, <1>4 DEF MakeHashDir
  <2>3. Before(p)'
    BY <2>0, <1>0, <1>4, <2>1 DEF MakeHashDir, Knows, Present
  <2>4. GoingTo(p, h)'
    BY <2>0, <2>1 DEF GoingTo
  <2>5. \A g \in DOMAIN by_hash' : Someone(g)'
    <3> SUFFICES ASSUME NEW g \in DOMAIN by_hash' PROVE Someone(g)'
      OBVIOUS
    <3>1. CASE g = h
      BY <2>0, <2>4, <3>1
    <3>2. CASE g # h
      BY <2>0, <1>3, <2>2, <3>2 DEF GoingTo
    <3> QED BY <3>1, <3>2
  <2> QED BY <1>2, <2>3, <2>5
<1>5. CASE SkipShared(p) \/ PickShared(p)
  <2>1. /\ process'[p].at = "share" /\ process'[p].hash = process[p].hash
        /\ UNCHANGED by_hash /\ process[p].at = "share" /\ process[p].file = {}
        /\ process'[p].file \cap by_hash[process[p].hash] = {}
        /\ process[p].todo \subseteq
             process'[p].todo \cup process'[p].file \cup by_hash[process[p].hash]
    BY <1>5, ShareMoves DEF SkipShared, PickShared
  <2>2. Before(p)'
    BY <2>1 DEF HashInv
  <2>3. \A h \in DOMAIN by_hash' : Someone(h)'
    BY <1>3, <2>1 DEF GoingTo
  <2> QED BY <1>2, <2>2, <2>3
<1>6. CASE ShareFile(p)
  <2>0. PICK h : h = process[p].hash
    OBVIOUS
  <2>1. /\ process'[p].at = "share" /\ process'[p].file = {}
        /\ process'[p].todo = process[p].todo /\ process'[p].hash = h
    BY <2>0, <1>6, ShareMoves
  <2>2. PICK f \in process[p].file \ by_hash[h] :
          by_hash' = [by_hash EXCEPT ![h] = @ \cup {f}]
    BY <2>0, <1>6 DEF ShareFile
  <2>3. h \in DOMAIN by_hash /\ \A g \in process[p].file : g = f
    BY <2>0, <1>0, <1>6, <2>2 DEF ShareFile, Knows
  <2>4. Before(p)'
    BY <2>0, <1>0, <1>6, <2>1, <2>2, <2>3 DEF ShareFile, HashInv
  <2>5. GoingTo(p, h)'
    BY <2>0, <2>1 DEF GoingTo
  <2>6. \A g \in DOMAIN by_hash' : Someone(g)'
    <3> SUFFICES ASSUME NEW g \in DOMAIN by_hash' PROVE Someone(g)'
      OBVIOUS
    <3>1. CASE g = h
      BY <2>0, <2>5, <3>1
    <3>2. CASE g # h
      BY <2>0, <1>3, <2>2, <2>3, <3>2 DEF GoingTo
    <3> QED BY <3>1, <3>2
  <2> QED BY <1>2, <2>4, <2>6
<1>7. CASE ~(MakeHashDir(p) \/ SkipShared(p) \/ PickShared(p) \/ ShareFile(p))
  <2>1. UNCHANGED by_hash /\ process'[p].at # "share"
    BY <1>7, SharesNot
  <2>2. ASSUME NEW h \in DOMAIN by_hash, GoingTo(p, h),
               \E f \in File : h[f] # "none" /\ f \notin by_hash[h]
        PROVE  FALSE
    <3>1. process[p].at = "make" => MakeHashDir(p)
      BY <1>0, <1>7 DEF Step, Again, Adopt, FindMissing, MakeIdDir, SkipFile,
         PickFile, LinkFile, LoseLink, OpenCopy, CannotOpen, NoteError,
         CloseCopy, RaiseCopy, Filled, HashDir, HashDirExists, HashDirMissing,
         LoseShare, Return
    <3>2. process[p].at = "share" => LoseShare(p) \/ Return(p)
      BY <1>0, <1>7 DEF Step, Again, Adopt, FindMissing, MakeIdDir, SkipFile,
         PickFile, LinkFile, LoseLink, OpenCopy, CannotOpen, NoteError,
         CloseCopy, RaiseCopy, Filled, HashDir, HashDirExists, HashDirMissing,
         LoseShare, Return
    <3>3. Return(p)
      BY <1>7, <2>2, <3>1, <3>2 DEF GoingTo, LoseShare
    <3> QED BY <2>2, <3>3 DEF Return, HashInv, GoingTo
  <2>3. \A h \in DOMAIN by_hash' : Someone(h)'
    BY <2>1, <2>2 DEF HashInv, GoingTo
  <2> QED BY <1>2, <2>1, <2>3
<1> QED BY <1>4, <1>5, <1>6, <1>7

\* One process moves at a time.
LEMMA OneMoves ==
  ASSUME IInv, NEW p \in Process, Step(p) \/ Again(p)
  PROVE  \A q \in Process \ {p} : process'[q] = process[q]
<1>1. \E c : Goes(p, c)
  BY DEF Step, Again, Adopt, FindMissing, MakeIdDir, SkipFile, PickFile,
         LinkFile, LoseLink, OpenCopy, CannotOpen, NoteError, CloseCopy,
         RaiseCopy, Filled, HashDir, HashDirExists, HashDirMissing,
         MakeHashDir, SkipShared, PickShared, ShareFile, LoseShare, Return
<1> QED BY <1>1 DEF Goes, IInv, TypeOK

\* Unless a process is killed, both stay true.
Surviving == kills = 0 => FillInv /\ HashInv

LEMMA Survivors == Spec => []Surviving
<1>1. Init => Surviving
  <2> SUFFICES ASSUME Init PROVE FillInv /\ HashInv
    BY DEF Surviving
  <2>1. \A p \in Process : process[p].at = "idle"
    BY DEF Init, Ended
  <2> QED BY <2>1 DEF Init, FillInv, HashInv
<1>2. IInv /\ Surviving /\ [Next]_vars => Surviving'
  <2> SUFFICES ASSUME IInv, Surviving, [Next]_vars, kills' = 0
               PROVE  (FillInv /\ HashInv)'
    BY DEF Surviving
  <2>1. CASE Next
    <3>0. PICK p \in Process :
            Run(p) \/ Kill(p) \/ (Again(p) /\ UNCHANGED <<kills, contended>>)
      BY <2>1 DEF Next
    <3>1. kills = 0 /\ FillInv /\ HashInv /\ (Step(p) \/ Again(p))
      <4>1. kills \in 0..MaxKills
        BY DEF IInv, TypeOK, HistoryOK
      <4> QED BY <3>0, <4>1, InternalizeAssumption DEF Run, Kill, Surviving
    <3>2. \A q \in Process \ {p} : process'[q] = process[q]
      BY <3>1, OneMoves
    <3> QED BY <3>1, <3>2, FillStep, HashStep
  <2>2. CASE UNCHANGED vars
    BY <2>2 DEF vars, FillInv, Going, HashInv, GoingTo, Surviving
  <2> QED BY <2>1, <2>2
<1> QED BY <1>1, <1>2, Invariance, PTL DEF Spec

\* However processes race for the two directories, one that is not killed gets
\* each of them done.
THEOREM SurvivorsComplete == Spec => []SurvivorCompletes
<1>1. IInv /\ Surviving => SurvivorCompletes
  <2> SUFFICES ASSUME IInv, FillInv, HashInv PROVE Done
    BY DEF SurvivorCompletes, Surviving
  <2> QED BY DEF Done, Filling, Sharing, FillInv, Going, HashInv, GoingTo
<1> QED BY <1>1, Invariance, Survivors, PTL

-----------------------------------------------------------------------------
(* Calls in turn: none killed, none begun while another is under way *)

\* One call is under way at most.
Turns == \A p, q \in Process : Active(p) /\ Active(q) => p = q

\* A call that is done filling, or adopted the directory, has it whole before
\* it; what it hashes is the whole dependency; and so is what it leaves.
InTurn(p) ==
  /\ process[p].at \in {"hash", "hashed", "make", "share", "returned"} =>
       inode = Whole
  /\ process[p].at \in {"hashed", "make", "share", "returned"} =>
       process[p].hash = Whole
  /\ process[p].at = "returned" =>
       Whole \in DOMAIN by_hash /\ by_hash[Whole] = File

TurnsInv == Turns /\ \A p \in Process : InTurn(p)

\* Where the mover of a step stands, and where it gets to.
LEMMA TurnMoves ==
  ASSUME IInv, NEW p \in Process, Step(p) \/ Again(p)
  PROVE  /\ Step(p) => process[p].at \notin {"returned", "raised"}
         /\ Again(p) => process'[p].at = "idle"
         /\ process'[p].at = "hash" => Adopt(p) \/ Filled(p)
         /\ process'[p].at = "hashed" => HashDir(p) /\ process'[p].hash = inode
         /\ process'[p].at = "make" =>
              HashDirMissing(p) /\ process'[p].hash = process[p].hash
         /\ process'[p].at = "share" =>
              /\ MakeHashDir(p) \/ SkipShared(p) \/ PickShared(p) \/ ShareFile(p)
              /\ process'[p].hash = process[p].hash
         /\ process'[p].at = "returned" =>
              /\ HashDirExists(p) \/ Return(p)
              /\ process'[p].hash = process[p].hash
<1> USE WholeType, EndedType
<1>0. process[p] \in Call /\ p \in DOMAIN process
  BY DEF IInv, TypeOK
<1>1. CASE MakeIdDir(p) \/ SkipFile(p) \/ PickFile(p) \/ OpenCopy(p)
           \/ LinkFile(p) \/ NoteError(p) \/ CloseCopy(p)
  <2>1. process'[p].at \in {"fill", "place", "write"}
    BY <1>1, FillMoves
  <2>2. process[p].at \in {"mkdir", "fill", "place", "write"} /\ ~Again(p)
    BY <1>1 DEF MakeIdDir, SkipFile, PickFile, OpenCopy, LinkFile, NoteError,
                CloseCopy, Again
  <2> QED BY <2>1, <2>2
<1>2. CASE Adopt(p) \/ Filled(p)
  BY <1>0, <1>2 DEF Adopt, Filled, Goes, Call, Again
<1>3. CASE FindMissing(p) \/ HashDirMissing(p)
  BY <1>0, <1>3 DEF FindMissing, HashDirMissing, Goes, Call, Again
<1>4. CASE LoseLink(p) \/ CannotOpen(p) \/ RaiseCopy(p) \/ LoseShare(p)
  BY <1>0, <1>4
     DEF LoseLink, CannotOpen, RaiseCopy, LoseShare, Goes, Places, Again
<1>5. CASE HashDir(p)
  <2>1. process'[p].at = "hashed" /\ process'[p].hash = inode
    BY <1>0, <1>5 DEF HashDir, Goes, Call
  <2> QED BY <1>5, <2>1 DEF HashDir, Again
<1>6. CASE HashDirExists(p) \/ Return(p)
  <2>1. process'[p].at = "returned" /\ process'[p].hash = process[p].hash
    BY <1>0, <1>6 DEF HashDirExists, Return, Goes, Places, Call
  <2> QED BY <1>6, <2>1 DEF HashDirExists, Return, Again
<1>7. CASE Again(p)
  <2>1. process'[p].at = "idle" /\ process[p].at \in {"returned", "raised"}
    BY <1>0, <1>7 DEF Again, Goes, Places
  <2>2. ~Step(p)
    BY <2>1 DEF Step, Adopt, FindMissing, MakeIdDir, SkipFile, PickFile,
       LinkFile, LoseLink, OpenCopy, CannotOpen, NoteError, CloseCopy,
       RaiseCopy, Filled, HashDir, HashDirExists, HashDirMissing,
       MakeHashDir, SkipShared, PickShared, ShareFile, LoseShare, Return
  <2> QED BY <2>1, <2>2
<1>8. CASE MakeHashDir(p) \/ SkipShared(p) \/ PickShared(p) \/ ShareFile(p)
  <2>1. process'[p].at = "share" /\ process'[p].hash = process[p].hash
    BY <1>8, ShareMoves
  <2>2. process[p].at \in {"make", "share"}
    BY <1>8 DEF MakeHashDir, SkipShared, PickShared, ShareFile
  <2> QED BY <1>8, <2>1, <2>2 DEF Again
<1> QED BY <1>1, <1>2, <1>3, <1>4, <1>5, <1>6, <1>7, <1>8 DEF Step

\* A directory no one is filling is whole, and so is an address no one fills.
LEMMA Finished ==
  ASSUME IInv, FillInv, HashInv
  PROVE  /\ id_dir /\ (\A q \in Process : ~Going(q)) => inode = Whole
         /\ Whole \in DOMAIN by_hash
              /\ (\A q \in Process : ~GoingTo(q, Whole)) => by_hash[Whole] = File
<1>1. id_dir /\ (\A q \in Process : ~Going(q)) => inode = Whole
  BY DEF FillInv
<1>2. ASSUME Whole \in DOMAIN by_hash, \A q \in Process : ~GoingTo(q, Whole)
      PROVE  by_hash[Whole] = File
  <2>1. by_hash[Whole] \subseteq File
    BY <1>2 DEF IInv, TypeOK
  <2>2. \A f \in File : Whole[f] # "none"
    BY DEF Whole
  <2> QED BY <1>2, <2>1, <2>2 DEF HashInv
<1> QED BY <1>1, <1>2

\* The step of one process, when it is its turn.
LEMMA TurnStep ==
  ASSUME IInv, IInv', FillInv, HashInv, TurnsInv, NEW p \in Process,
         Again(p) \/ (Step(p) /\ ~Contends(p)),
         \A q \in Process \ {p} : process'[q] = process[q]
  PROVE  TurnsInv'
<1>0. /\ p \in DOMAIN process
      /\ \A q \in Process : Knows(q) /\ process[q] \in Call
      /\ inode \in Hash /\ inode' \in Hash
      /\ \A q \in Process :
           process[q].file # {} => process[q].at \in {"place", "write", "share"}
  BY DEF IInv, TypeOK, ProcessInv
<1>g. Grows(p)
  BY DiskGrows
<1>1. Turns'
  <2>1. ASSUME NEW q \in Process \ {p}, Active(q)', Active(p)'
        PROVE  FALSE
    <3>1. Active(q)
      BY <2>1 DEF Active
    <3>2. Step(p) /\ ~Contends(p)
      BY <2>1, TurnMoves DEF Active
    <3>3. process[p].at # "idle"
      BY <3>1, <3>2 DEF Contends
    <3>4. Active(p)
      BY <3>2, <3>3, TurnMoves DEF Active
    <3> QED BY <3>1, <3>4 DEF TurnsInv, Turns
  <2>2. ASSUME NEW q \in Process \ {p}, NEW r \in Process \ {p},
               Active(q)', Active(r)'
        PROVE  q = r
    BY <2>2 DEF TurnsInv, Turns, Active
  <2> QED BY <2>1, <2>2 DEF Turns
<1>2. ASSUME Active(p), NEW q \in Process \ {p}
      PROVE  ~Active(q)
  BY <1>2 DEF TurnsInv, Turns
<1>3. inode = Whole => inode' = Whole
  <2>1. ASSUME inode = Whole, NEW f \in File PROVE inode'[f] = "whole"
    BY <1>g, <2>1 DEF Grows, Whole
  <2> QED BY <1>0, <2>1 DEF Hash, Whole
<1>4. ASSUME Whole \in DOMAIN by_hash, by_hash[Whole] = File
      PROVE  Whole \in DOMAIN by_hash' /\ by_hash'[Whole] = File
  <2>1. Whole \in DOMAIN by_hash' /\ File \subseteq by_hash'[Whole]
    BY <1>g, <1>4 DEF Grows
  <2>2. by_hash'[Whole] \subseteq File
    BY <2>1 DEF IInv, TypeOK
  <2> QED BY <2>1, <2>2
<1>5. ASSUME NEW q \in Process \ {p} PROVE InTurn(q)'
  BY <1>3, <1>4 DEF TurnsInv, InTurn
<1>6. ASSUME Adopt(p) PROVE inode = Whole
  <2>1. process[p].at = "idle" /\ id_dir /\ ~Contends(p)
    BY <1>6 DEF Adopt, Exists, Again
  <2>2. \A q \in Process : ~Going(q)
    BY <2>1 DEF Contends, Going, Active
  <2> QED BY <2>1, <2>2, Finished
<1>7. ASSUME Filled(p) PROVE inode = Whole
  <2>1. process[p].at = "fill" /\ process[p].todo = {} /\ process[p].file = {}
    BY <1>0, <1>7 DEF Filled
  <2>2. \A f \in File : inode[f] # "none"
    BY <2>1 DEF FillInv
  <2>3. \A f \in File : inode[f] \notin {"part", "sealed"}
    BY <1>2, <2>1 DEF FillInv, Active
  <2> QED BY <1>0, <2>2, <2>3 DEF Hash, Whole, Contents
<1>8. ASSUME process'[p].at \in {"hash", "hashed", "make", "share", "returned"}
      PROVE  inode = Whole
  <2>1. \/ Adopt(p) \/ Filled(p)
        \/ process[p].at \in {"hash", "hashed", "make", "share"}
    BY <1>8, TurnMoves DEF HashDir, HashDirMissing, MakeHashDir, SkipShared,
       PickShared, ShareFile, HashDirExists, Return
  <2> QED BY <1>6, <1>7, <2>1 DEF TurnsInv, InTurn
<1>9. ASSUME process'[p].at \in {"hashed", "make", "share", "returned"}
      PROVE  process'[p].hash = Whole
  <2>1. CASE process'[p].at = "hashed"
    BY <1>8, <2>1, TurnMoves
  <2>2. CASE process'[p].at # "hashed"
    <3>1. process'[p].hash = process[p].hash
      BY <1>9, <2>2, TurnMoves
    <3>2. process[p].at \in {"hashed", "make", "share"}
      BY <1>9, <2>2, TurnMoves DEF HashDirMissing, MakeHashDir, SkipShared,
         PickShared, ShareFile, HashDirExists, Return
    <3> QED BY <3>1, <3>2 DEF TurnsInv, InTurn
  <2> QED BY <2>1, <2>2
<1>10. ASSUME process'[p].at = "returned"
       PROVE  Whole \in DOMAIN by_hash /\ by_hash[Whole] = File
  <2>1. HashDirExists(p) \/ Return(p)
    BY <1>10, TurnMoves
  <2>2. process[p].hash = Whole
    BY <2>1 DEF HashDirExists, Return, TurnsInv, InTurn
  <2>3. CASE HashDirExists(p)
    <3>1. process[p].at = "hashed" /\ Whole \in DOMAIN by_hash
      BY <2>2, <2>3 DEF HashDirExists
    <3>2. \A q \in Process : ~GoingTo(q, Whole)
      BY <1>2, <3>1 DEF GoingTo, Active
    <3> QED BY <3>1, <3>2, Finished
  <2>4. CASE Return(p)
    <3>1. process[p].at = "share" /\ process[p].todo = {} /\ process[p].file = {}
      BY <2>4 DEF Return
    <3>2. Whole \in DOMAIN by_hash
      BY <1>0, <2>2, <3>1 DEF Knows
    <3>3. \A f \in File : f \in by_hash[Whole]
      BY <2>2, <3>1 DEF HashInv, Whole
    <3>4. by_hash[Whole] \subseteq File
      BY <3>2 DEF IInv, TypeOK
    <3> QED BY <3>2, <3>3, <3>4
  <2> QED BY <2>1, <2>3, <2>4
<1>11. InTurn(p)'
  BY <1>3, <1>4, <1>8, <1>9, <1>10 DEF InTurn
<1> QED BY <1>1, <1>5, <1>11 DEF TurnsInv

\* `Returns the ID and the content address': while calls follow each other and
\* none is killed, what a call returns is the address of the whole dependency,
\* and the directory of that name holds all of it, in whichever of the three
\* ways this machine fills it, and however often dsm is run.
THEOREM ReturnsComplete == Spec => []ReturnedIsComplete
<1> DEFINE InvT == kills = 0 /\ ~contended => TurnsInv
<1>1. Init => InvT
  <2> SUFFICES ASSUME Init PROVE TurnsInv
    OBVIOUS
  <2>1. \A p \in Process : process[p].at = "idle"
    BY DEF Init, Ended
  <2> QED BY <2>1 DEF TurnsInv, Turns, InTurn, Active
<1>2. IInv /\ IInv' /\ Surviving /\ InvT /\ [Next]_vars => InvT'
  <2> SUFFICES ASSUME IInv, IInv', Surviving, InvT, [Next]_vars,
                      kills' = 0, ~contended'
               PROVE  TurnsInv'
    OBVIOUS
  <2>1. CASE Next
    <3>0. PICK p \in Process :
            Run(p) \/ Kill(p) \/ (Again(p) /\ UNCHANGED <<kills, contended>>)
      BY <2>1 DEF Next
    <3>1. kills = 0 /\ ~Kill(p)
      <4>1. kills \in 0..MaxKills
        BY DEF IInv, TypeOK, HistoryOK
      <4> QED BY <3>0, <4>1, InternalizeAssumption DEF Run, Kill
    <3>2. ~contended /\ (Again(p) \/ (Step(p) /\ ~Contends(p)))
      <4>1. ASSUME Run(p) PROVE ~contended /\ Step(p) /\ ~Contends(p)
        BY <4>1, Zenon DEF Run
      <4>2. ASSUME Again(p), UNCHANGED <<kills, contended>> PROVE ~contended
        BY <4>2
      <4> QED BY <3>0, <3>1, <4>1, <4>2
    <3>3. \A q \in Process \ {p} : process'[q] = process[q]
      BY <3>2, OneMoves
    <3> QED BY <3>1, <3>2, <3>3, TurnStep DEF Surviving
  <2>2. CASE UNCHANGED vars
    BY <2>2 DEF vars, TurnsInv, Turns, InTurn, Active
  <2> QED BY <2>1, <2>2
<1>3. InvT => ReturnedIsComplete
  BY DEF ReturnedIsComplete, ReturnsTheDependency, TurnsInv, InTurn
<1> QED BY <1>1, <1>2, <1>3, Invariance, Survivors, PTL DEF Spec

=============================================================================
