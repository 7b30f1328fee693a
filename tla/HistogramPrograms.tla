-------------------------- MODULE HistogramPrograms --------------------------
(***************************************************************************)
(* fhistogram and fhistogram-mt side by side: one of the two is started on *)
(* the same files; the variables of the other one stay as they are.        *)
(***************************************************************************)
EXTENDS Fhistogram, FhistogramMT

VARIABLE program   \* which of the two was started

ProgramsInit ==
  /\ program \in {"fhistogram", "fhistogram-mt"}
  /\ SInit /\ HInit

ProgramsNext ==
  /\ \/ program = "fhistogram"    /\ SNext /\ UNCHANGED <<poolAll, mtVars>>
     \/ program = "fhistogram-mt" /\ HNext /\ UNCHANGED walkVars
  /\ UNCHANGED program

ProgramsSpec ==
  ProgramsInit /\ [][ProgramsNext]_<<walkVars, poolAll, mtVars, shown, program>>

-----------------------------------------------------------------------------
ProgramsTypeOK == HistTypeOK /\ STypeOK /\ HTypeOK

\* DrawnWhole and GlobalsAgree for the program they are about: the workers draw
\* whole files only and keep the two globals in step (fhistogram-mt.c:57-66).
WorkersDrawWhole == program = "fhistogram-mt" => DrawnWhole
WorkersAgree     == program = "fhistogram-mt" => GlobalsAgree

\* What is on the screen at the end is the picture of the files that could be
\* opened, each counted once: in fhistogram-mt with however many workers were
\* created out of those asked for, and a picture of zeros when no file could be
\* opened; in fhistogram, which draws only for a file that it has read, nothing at
\* all in that case (fhistogram.c:28-32, 48-49, 88-92, fhistogram-mt.c:111-155).
FinalPicture ==
  /\ mstage = "exit" => screen = PictureOf(Positions(Files \ unreadable))
  /\ ended => screen = IF unreadable = Files THEN NoPicture
                                             ELSE PictureOf(Positions(Files \ unreadable))

===============================================================================
