----------------------------- MODULE MCHpsLink ------------------------------
(***************************************************************************)
(* The link between the firmware and the core at its two levels, in one    *)
(* model: the strobe transport (HpsSpi) and the mailbox of the drive that  *)
(* is built on it (CdMailbox).  CdMailbox takes from HpsSpi that a word    *)
(* arrives once and in order and shares no state with it, so a behaviour   *)
(* is one of the transport or one of the mailbox: `level' says which, and  *)
(* the other one rests.                                                    *)
(***************************************************************************)
EXTENDS CdMailbox, HpsSpi

VARIABLE level

(* A mount notification, a status, data of an odd number of bytes, an OSD  *)
(* line and a download announcement.                                       *)
MCFrames ==
  {HPS_spi_uio_cmd8(UIO_SET_SDSTAT, 1),
   HPS_spi_uio_cmd16(UIO_CD_SET, 2),
   HPS_io_file_tx_data(<<7, 8, 9>>, UIO_CD_DATA),
   OSD_HPS_spi_write(32, <<5, 5>>),
   HPS_io_set_download(TRUE, 65537)}

MCBusyWords == {UIO_SET_SDSTAT, UIO_CD_SET, UIO_CD_DATA}

(* Blocks of no, an even and an odd number of bytes.                       *)
MCBlocks == {<<>>, <<1, 2>>, <<3, 4, 5>>}

linkVars == <<level, vars, spiVars>>

LinkInit == level \in {"transport", "mailbox"} /\ Init /\ SpiInit

InMailbox(A)   == level = "mailbox" /\ A /\ UNCHANGED <<level, spiVars>>
InTransport(A) == level = "transport" /\ A /\ UNCHANGED <<level, vars>>

LinkNext == InMailbox(Next) \/ InTransport(SpiNext)

(* The fairness of each level, while it is the one that runs.              *)
LinkSpec ==
  /\ LinkInit /\ [][LinkNext]_linkVars
  /\ SF_linkVars(InMailbox(PollCounter))
  /\ WF_linkVars(InMailbox(ReadWord \/ ActOnMessage \/ SendWord \/ EndCall))
  /\ WF_linkVars(InTransport(SpiFirmware))
  /\ WF_linkVars(InTransport(Tick))
  /\ WF_linkVars(InTransport(Drain))
=============================================================================
