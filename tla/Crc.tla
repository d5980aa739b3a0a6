---------------------------------- MODULE Crc ----------------------------------
(* The checksum of a frame on a serial line, include/mothbus/adu/crc.h, with    *)
(* its two tables.                                                              *)
EXTENDS Pdu

auchCRCHi ==
  <<\h00, \hC1, \h81, \h40, \h01, \hC0, \h80, \h41, \h01, \hC0, \h80, \h41, \h00, \hC1, \h81, \h40,
    \h01, \hC0, \h80, \h41, \h00, \hC1, \h81, \h40, \h00, \hC1, \h81, \h40, \h01, \hC0, \h80, \h41,
    \h01, \hC0, \h80, \h41, \h00, \hC1, \h81, \h40, \h00, \hC1, \h81, \h40, \h01, \hC0, \h80, \h41,
    \h00, \hC1, \h81, \h40, \h01, \hC0, \h80, \h41, \h01, \hC0, \h80, \h41, \h00, \hC1, \h81, \h40,
    \h01, \hC0, \h80, \h41, \h00, \hC1, \h81, \h40, \h00, \hC1, \h81, \h40, \h01, \hC0, \h80, \h41,
    \h00, \hC1, \h81, \h40, \h01, \hC0, \h80, \h41, \h01, \hC0, \h80, \h41, \h00, \hC1, \h81, \h40,
    \h00, \hC1, \h81, \h40, \h01, \hC0, \h80, \h41, \h01, \hC0, \h80, \h41, \h00, \hC1, \h81, \h40,
    \h01, \hC0, \h80, \h41, \h00, \hC1, \h81, \h40, \h00, \hC1, \h81, \h40, \h01, \hC0, \h80, \h41,
    \h01, \hC0, \h80, \h41, \h00, \hC1, \h81, \h40, \h00, \hC1, \h81, \h40, \h01, \hC0, \h80, \h41,
    \h00, \hC1, \h81, \h40, \h01, \hC0, \h80, \h41, \h01, \hC0, \h80, \h41, \h00, \hC1, \h81, \h40,
    \h00, \hC1, \h81, \h40, \h01, \hC0, \h80, \h41, \h01, \hC0, \h80, \h41, \h00, \hC1, \h81, \h40,
    \h01, \hC0, \h80, \h41, \h00, \hC1, \h81, \h40, \h00, \hC1, \h81, \h40, \h01, \hC0, \h80, \h41,
    \h00, \hC1, \h81, \h40, \h01, \hC0, \h80, \h41, \h01, \hC0, \h80, \h41, \h00, \hC1, \h81, \h40,
    \h01, \hC0, \h80, \h41, \h00, \hC1, \h81, \h40, \h00, \hC1, \h81, \h40, \h01, \hC0, \h80, \h41,
    \h01, \hC0, \h80, \h41, \h00, \hC1, \h81, \h40, \h00, \hC1, \h81, \h40, \h01, \hC0, \h80, \h41,
    \h00, \hC1, \h81, \h40, \h01, \hC0, \h80, \h41, \h01, \hC0, \h80, \h41, \h00, \hC1, \h81, \h40>>

auchCRCLo ==
  <<\h00, \hC0, \hC1, \h01, \hC3, \h03, \h02, \hC2, \hC6, \h06, \h07, \hC7, \h05, \hC5, \hC4, \h04,
    \hCC, \h0C, \h0D, \hCD, \h0F, \hCF, \hCE, \h0E, \h0A, \hCA, \hCB, \h0B, \hC9, \h09, \h08, \hC8,
    \hD8, \h18, \h19, \hD9, \h1B, \hDB, \hDA, \h1A, \h1E, \hDE, \hDF, \h1F, \hDD, \h1D, \h1C, \hDC,
    \h14, \hD4, \hD5, \h15, \hD7, \h17, \h16, \hD6, \hD2, \h12, \h13, \hD3, \h11, \hD1, \hD0, \h10,
    \hF0, \h30, \h31, \hF1, \h33, \hF3, \hF2, \h32, \h36, \hF6, \hF7, \h37, \hF5, \h35, \h34, \hF4,
    \h3C, \hFC, \hFD, \h3D, \hFF, \h3F, \h3E, \hFE, \hFA, \h3A, \h3B, \hFB, \h39, \hF9, \hF8, \h38,
    \h28, \hE8, \hE9, \h29, \hEB, \h2B, \h2A, \hEA, \hEE, \h2E, \h2F, \hEF, \h2D, \hED, \hEC, \h2C,
    \hE4, \h24, \h25, \hE5, \h27, \hE7, \hE6, \h26, \h22, \hE2, \hE3, \h23, \hE1, \h21, \h20, \hE0,
    \hA0, \h60, \h61, \hA1, \h63, \hA3, \hA2, \h62, \h66, \hA6, \hA7, \h67, \hA5, \h65, \h64, \hA4,
    \h6C, \hAC, \hAD, \h6D, \hAF, \h6F, \h6E, \hAE, \hAA, \h6A, \h6B, \hAB, \h69, \hA9, \hA8, \h68,
    \h78, \hB8, \hB9, \h79, \hBB, \h7B, \h7A, \hBA, \hBE, \h7E, \h7F, \hBF, \h7D, \hBD, \hBC, \h7C,
    \hB4, \h74, \h75, \hB5, \h77, \hB7, \hB6, \h76, \h72, \hB2, \hB3, \h73, \hB1, \h71, \h70, \hB0,
    \h50, \h90, \h91, \h51, \h93, \h53, \h52, \h92, \h96, \h56, \h57, \h97, \h55, \h95, \h94, \h54,
    \h9C, \h5C, \h5D, \h9D, \h5F, \h9F, \h9E, \h5E, \h5A, \h9A, \h9B, \h5B, \h99, \h59, \h58, \h98,
    \h88, \h48, \h49, \h89, \h4B, \h8B, \h8A, \h4A, \h4E, \h8E, \h8F, \h4F, \h8D, \h4D, \h4C, \h8C,
    \h44, \h84, \h85, \h45, \h87, \h47, \h46, \h86, \h82, \h42, \h43, \h83, \h41, \h81, \h80, \h40>>

\* The operator ^ on two bytes: the places where they differ.
Xor(a, b) ==
  LET Place(w) == IF (a \div w) % 2 = (b \div w) % 2 THEN 0 ELSE w
  IN  Place(1) + Place(2) + Place(4) + Place(8) + Place(16) + Place(32) + Place(64) + Place(128)

\* Faulty variant: each table is used in the other's place.
CrcStepSwapped(r, b) ==
  LET uIndex == Xor(r.lo, b) + 1
  IN  [lo |-> Xor(r.hi, auchCRCLo[uIndex]), hi |-> auchCRCHi[uIndex]]

\* One turn of the loop: r holds uchCRCLo and uchCRCHi.
CrcStep(r, b) ==
  LET uIndex == Xor(r.lo, b) + 1
  IN  [lo |-> Xor(r.hi, auchCRCHi[uIndex]), hi |-> auchCRCLo[uIndex]]

\* The loop over the bytes lo .. hi of the message, in halves: a recursion step for every byte
\* would be too deep for TLC.
CrcLoop(msg) ==
  LET after[t \in Nat \X Nat \X [lo : Byte, hi : Byte]] ==
        LET lo  == t[1]
            hi  == t[2]
            mid == (lo + hi) \div 2
        IN  IF lo > hi THEN t[3]
            ELSE IF lo = hi THEN CrcStep(t[3], msg[lo])
            ELSE after[<<mid + 1, hi, after[<<lo, mid, t[3]>>]>>]
  IN  after[<<1, Len(msg), [lo |-> 255, hi |-> 255]>>]

CRC16(msg) == LET last == CrcLoop(msg) IN last.hi * 256 + last.lo

--------------------------------------------------------------------------------
(* A frame on the line, rtu::stream::write_request: unit id, PDU, checksum with *)
(* its low byte first.                                                          *)

\* Faulty variant: the low byte is not cut out.
CrcBytesUnmasked(crc) == <<crc, crc \div 256>>

CrcBytes(crc) == <<crc % 256, crc \div 256>>

RtuFrame(slave, pdu) == (<<slave>> \o pdu) \o CrcBytes(CRC16(<<slave>> \o pdu))
================================================================================
