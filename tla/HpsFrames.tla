----------------------------- MODULE HpsFrames ------------------------------
(***************************************************************************)
(* What each transfer function of spi.cpp puts on the bus: the slave it    *)
(* selects and the words it sends before it deselects it.                  *)
(***************************************************************************)
EXTENDS Naturals, Sequences

(* Commands of spi.h that the core in the FPGA understands.                *)
UIO_SET_SDSTAT  == 51
UIO_CD_GET      == 52
UIO_CD_SET      == 53
UIO_CD_DATA     == 54
FIO_FILE_TX     == 83
FIO_FILE_INDEX  == 85

Frame(to, words) == [to |-> to, words |-> words]

Low16(x)  == x % 65536
High16(x) == Low16(x \div 65536)
Byte(x)   == x % 256

(* Mutant: the odd byte at the end is forgotten.                           *)
WideEven(bytes) ==
  [i \in 1..Len(bytes) \div 2 |-> bytes[2*i - 1] + 256 * bytes[2*i]]

(* Two bytes make a word, the first one low; an odd byte at the end is     *)
(* sent as a word of its own.  Otherwise every byte is a word.             *)
Wide(bytes) ==
  [i \in 1..(Len(bytes) + 1) \div 2 |->
     bytes[2*i - 1] + (IF 2*i <= Len(bytes) THEN 256 * bytes[2*i] ELSE 0)]

HPS_spi_write(bytes, wide) == IF wide THEN Wide(bytes) ELSE bytes

(* Reading clocks out as many words of zero; each answer is a word of the  *)
(* buffer, cut to a byte when the transfer is not wide.                    *)
HPS_spi_read(len, wide) ==
  [i \in 1..(IF wide THEN (len + 1) \div 2 ELSE len) |-> 0]

HPS_spi_uio_cmd(cmd)         == Frame("io", <<cmd>>)
HPS_spi_uio_cmd8(cmd, parm)  == Frame("io", <<cmd, Byte(parm)>>)
HPS_spi_uio_cmd16(cmd, parm) == Frame("io", <<cmd, Low16(parm)>>)

HPS_spi_uio_cmd32(cmd, parm, wide) ==
  Frame("io", <<cmd>> \o
    (IF wide THEN <<Low16(parm), High16(parm)>>
             ELSE [i \in 1..4 |-> Byte(parm \div (256^(i-1)))]))

HPS_io_set_index(index) == Frame("fpga", <<FIO_FILE_INDEX, index>>)

HPS_io_set_download(enable, addr) ==
  Frame("fpga", <<FIO_FILE_TX, IF enable THEN 255 ELSE 0>> \o
    (IF enable /\ addr # 0 THEN <<Low16(addr), High16(addr)>> ELSE <<>>))

(* fio_size is 1, so the data is wide.                                     *)
HPS_io_file_tx_data(bytes, cmd) ==
  Frame("io", <<cmd>> \o HPS_spi_write(bytes, TRUE))

HPS_spi_osd_cmd(cmd)        == Frame("osd", <<Byte(cmd)>>)
HPS_spi_osd_cmd8(cmd, parm) == Frame("osd", <<Byte(cmd), Byte(parm)>>)

(* OsdUpdate: the command that names the line, then its bytes, one a word. *)
OSD_HPS_spi_write(cmd, bytes) ==
  Frame("osd", <<Byte(cmd)>> \o HPS_spi_write(bytes, FALSE))
=============================================================================
