------------------------------- MODULE ModeViews -------------------------------
(***************************************************************************)
(* What the register file promises, without a word of how it is laid out:  *)
(* each mode has a view of the registers of its own, and a write is seen   *)
(* in the views that share the register, as the names of registers.h tell  *)
(* them apart, and in no other.                                            *)
(***************************************************************************)
EXTENDS RegisterNames

VARIABLES
  view,   \* the value of each register in each mode
  saved,  \* the program status each mode has saved
  cpsr,   \* the current program status
  last    \* the last operation, and the value it was given or returned

mvars == <<view, saved, cpsr, last>>

\* The register r of mode m and the register r of mode n are one.
Shares(r, m, n) ==
  \/ r \in Unbanked
  \/ r \in FiqBanked /\ (m = "FIQ" <=> n = "FIQ")
  \/ r \in ModeBanked /\ (m = n \/ {m, n} \subseteq UserModes)

-----------------------------------------------------------------------------
MInit ==
  /\ view \in [Modes -> [Registers -> Words]]
  /\ \A m, n \in Modes, r \in Registers :
       Shares(r, m, n) => view[m][r] = view[n][r]
  /\ \A m \in Modes \ RealModes, r \in ModeBanked : view[m][r] = 0
  /\ saved \in [Modes -> Psr]
  /\ \A m \in Modes \ BankedModes : saved[m] = NoPsr
  /\ cpsr = ResetPsr
  /\ last = NoOperation

\* A write as the mode m; a register that is not there keeps reading zero.
WriteAs(m, r, v) ==
  /\ last' = Operation("write", m, r, v)
  /\ view' = [n \in Modes |-> [s \in Registers |->
               IF /\ s = r /\ Shares(r, m, n)
                  /\ ~ (r \in ModeBanked /\ m \notin RealModes)
               THEN v ELSE view[n][s]]]
  /\ UNCHANGED <<saved, cpsr>>

\* All registers are written as the mode that is left, and the status after.
WriteAllAs(m, f, s) ==
  /\ last' = GeneralOperation("G", f, s)
  /\ view' = [n \in Modes |-> [r \in Registers |->
               IF /\ Shares(r, m, n)
                  /\ ~ (r \in ModeBanked /\ m \notin RealModes)
               THEN f[r] ELSE view[n][r]]]
  /\ cpsr' = s
  /\ UNCHANGED saved

ReadAllAs(m) ==
  /\ last' = GeneralOperation("g", view[m], cpsr)
  /\ UNCHANGED <<view, saved, cpsr>>

ReadAs(m, r) ==
  /\ last' = Operation("read", m, r, view[m][r])
  /\ UNCHANGED <<view, saved, cpsr>>

\* An instruction or gdb writes the status, and with it changes the mode.
SetStatus(s) ==
  /\ last' = StatusOperation("cpsr", s)
  /\ cpsr' = s
  /\ UNCHANGED <<view, saved>>

\* Only a mode that can save a status does.
Save(s) ==
  /\ last' = StatusOperation("spsr", s)
  /\ cpsr.mode \notin UserModes
  /\ saved' = IF cpsr.mode \in BankedModes
              THEN [saved EXCEPT ![cpsr.mode] = s] ELSE saved
  /\ UNCHANGED <<view, cpsr>>

\* The return from an exception.
Restore ==
  /\ last' = StatusOperation("restore", saved[cpsr.mode])
  /\ cpsr.mode \notin UserModes
  /\ cpsr' = saved[cpsr.mode]
  /\ UNCHANGED <<view, saved>>

MNext ==
  \/ \E m \in {cpsr.mode} \cup (Modes \cap {"USR"}), r \in Registers :
       ReadAs(m, r) \/ \E v \in Words : WriteAs(m, r, v)
  \/ \E s \in Psr : SetStatus(s) \/ Save(s)
  \/ Restore
  \/ ReadAllAs(cpsr.mode)
  \/ \E f \in Packets, s \in Psr : WriteAllAs(cpsr.mode, f, s)

MSpec == MInit /\ [][MNext]_mvars
===============================================================================
