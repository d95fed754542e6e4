------------------------------ MODULE MCBoard ------------------------------
(***************************************************************************)
(* Small instances of the devices of Board and of the core, and what the   *)
(* codes and the instructions compute, which is checked over small words.  *)
(***************************************************************************)
EXTENDS Board, Sequences, TLC

(* Block transfers: a linked pair of descriptors, one of them checked. *)
MCNoCommand == [sai |-> FALSE, dai |-> FALSE, size |-> 1, link |-> FALSE,
                vm |-> FALSE, vie |-> FALSE, tie |-> FALSE]

MCDmaDescriptors ==
  1 :> [dcm |-> [MCNoCommand EXCEPT !.sai = TRUE, !.link = TRUE, !.vm = TRUE,
                                    !.tie = TRUE, !.vie = TRUE],
        dsa |-> 0, dta |-> 0, dtc |-> 1, link |-> 2]
  @@ 2 :> [dcm |-> MCNoCommand, dsa |-> 1, dta |-> 0, dtc |-> 3, link |-> 1]

MCAddresses == 0 .. 3

MCRegWrites ==
  {<<0, "dcs", v>> : v \in [ndes : {FALSE}, cte : BOOLEAN, flags : {{}}]}
    \cup {<<1, "dcs", [ndes |-> TRUE, cte |-> TRUE, flags |-> {}]>>,
          <<1, "dtc", 1>>, <<0, "drt", "auto">>, <<0, "dda", 1>>}

(* The clock. *)
MCControlValues == {{}, {"RTCE"}, {"RTCE", "1HZIE"}, {"RTCE", "AE", "AIE"},
                    {"1HZ", "1HZIE", "AF", "AIE", "AE", "RTCE"}}

(* The key "menu" and the pen share a pin. *)
MCPinOf == "menu" :> "C27" @@ "pen" :> "C27" @@ "usb" :> "B18"
MCPortOf == "C27" :> "C" @@ "B18" :> "B" @@ "C30" :> "C"

MCFifoModes == {[fifo |-> FALSE, unit |-> TRUE, trigger |-> 1, clear |-> {}],
                [fifo |-> TRUE, unit |-> TRUE, trigger |-> 2, clear |-> {"tx"}],
                [fifo |-> TRUE, unit |-> TRUE, trigger |-> 1, clear |-> {"rx"}],
                [fifo |-> TRUE, unit |-> FALSE, trigger |-> 2, clear |-> {}]}
MCUartEnables == {{}, {"RDRIE"}, {"TDRIE", "RLSIE", "MSIE"}, {"RTOIE", "MSIE"}}

(* A chain of two frames, and one that is its own successor. *)
MCLcdDescriptors ==
  1 :> [next |-> 2, fid |-> 7, sof |-> TRUE, eof |-> FALSE]
  @@ 2 :> [next |-> 0, fid |-> 8, sof |-> FALSE, eof |-> TRUE]
MCLcdArms == {<<0, 1>>, <<1, 2>>}
MCLcdMoves == {<<2, "bad">>, <<2, "a">>}

MCStreamDescriptors == 1 :> [next |-> 1, fid |-> 7, sof |-> TRUE, eof |-> TRUE]
MCStreamArms == {<<0, 1>>}
MCStreamMoves == {<<1, "bad">>, <<1, "a">>}

MCLanes == {{}, 0 .. 15}
MCUdcAccesses ==
  {<<<<"inmaxp", "low">>, <<"inmaxp", "high">>>>,
   <<<<"incsr", "low">>, <<"outmaxp", "high">>>>, <<<<"outcsr", "high">>>>,
   <<<<"in", "low">>, <<"in", "high">>>>, <<<<"usb", "low">>>>}

MCCimControls == SUBSET {"ENA", "RF_RST", "VDD", "DMA_EOF"}

MCPowerValues == {{}, 0 .. 31, {8, 7, 10}}
MCPowerAccesses == {<<0, 4>>, <<0, 2>>, <<1, 1>>}

MCImages == {[present |-> FALSE, spare |-> FALSE, pages |-> 0],
             [present |-> TRUE, spare |-> TRUE, pages |-> 3],
             [present |-> TRUE, spare |-> TRUE, pages |-> 2],
             [present |-> TRUE, spare |-> FALSE, pages |-> 3]}
MCChipPages == 0 .. 2

(* A writable mapping with an invalid half, and a global, read-only one.         *)
MCLow(v, d, pfn, g) == [v |-> v, d |-> d, pfn |-> pfn, g |-> g]

MCLows ==
  {<<MCLow(TRUE, TRUE, 8, FALSE), MCLow(FALSE, FALSE, 0, FALSE)>>,
   <<MCLow(TRUE, TRUE, 8, TRUE), MCLow(TRUE, FALSE, 13, TRUE)>>}

MCMasks == {{}, {"timer"}, {"soft", "ip2"}}

(* A guest program for the core: conditional, likely, plain and register         *)
(* branches, some with their slot on the next page, a branch in a slot, loads    *)
(* that may fault, and handlers at the two exception vectors.                    *)
MCInsn(op, to) == [op |-> op, to |-> to]

MCProgram ==
  0 :> MCInsn("status", 0) @@ 1 :> MCInsn("BC", 6) @@ 2 :> MCInsn("load", 0)
  @@ 3 :> MCInsn("BL", 6) @@ 4 :> MCInsn("B", 0) @@ 5 :> MCInsn("B", 0)
  @@ 6 :> MCInsn("load", 0) @@ 7 :> MCInsn("BR", 0)
  @@ 8 :> MCInsn("load", 0) @@ 9 :> MCInsn("eret", 0)          \* TLB refill
  @@ 10 :> MCInsn("status", 0) @@ 11 :> MCInsn("eret", 0)      \* the rest

MCPatches == {<<1, MCInsn("BC", 4)>>, <<1, MCInsn("BC", 6)>>}

(* The ring of progress reaches into that of the watched page, as in the board.  *)
MCRingAt(b, s, w) == [base |-> b, header |-> 1, slots |-> s, words |-> w]

MCLayout ==
  "progress" :> MCRingAt(0, 2, 2) @@ "target" :> MCRingAt(3, 2, 1)
  @@ "dmac" :> MCRingAt(6, 1, 1) @@ "touch" :> MCRingAt(8, 1, 1)
  @@ "msc" :> MCRingAt(10, 2, 1) @@ "storage" :> MCRingAt(13, 3, 1)
  @@ "probe" :> MCRingAt(17, 2, 2)

MCAtStart == {{}, {"storage", "progress", "touch"}}

----------------------------------------------------------------------------
(* The codes over GF(8), with four roots and a block of five bits.  What they  *)
(* give for the blocks of the instance is tabulated once.                      *)
Field == INSTANCE RsCodec WITH SymbolBits <- 3, Poly <- {0, 1, 3}, NRoots <- 4

MCField == [alphaTo |-> Field!rs.alphaTo @@ <<>>, indexOf |-> Field!rs.indexOf @@ <<>>,
            genpoly |-> Field!rs.genpoly @@ <<>>]

Codes == INSTANCE Ecc WITH
  SymbolBits <- 3, NRoots <- 4, BlockBits <- 5, rs <- MCField

MCLoaded == {0, 3, 4}
MCData == SUBSET {0, 4}
MCEncoded == [d \in MCData |-> Codes!RsEncode(d)] @@ <<>>
MCPairs == MCData \X ({{}, MCLoaded} \cup {MCEncoded[d] : d \in MCData})
MCDecoded == [x \in MCPairs |-> Codes!RsDecode(x[1], x[2])] @@ <<>>
MCCodewords == Codes!Codewords
MCNearest == [x \in MCPairs |-> Codes!Nearest(x[1], x[2], MCCodewords)] @@ <<>>
MCHamming == [d \in MCData |-> Codes!Hamming(d)] @@ <<>>

MCRsEncode(d) == MCEncoded[d]
MCRsDecode(d, p) == MCDecoded[<<d, p>>]
MCNearestCode(d, p) == MCNearest[<<d, p>>]
MCParity(d) == MCHamming[d]

MCEmcControls == {{}, {"ECCE", "ERST"}, {"ECCE", "RSE", "ENCE"}, {"ECCE", "RSE"},
                  {"ECCE", "RSE", "PRDY"}}
MCParities == {MCLoaded}
MCParts == {0 .. 11}

Instructions == INSTANCE Alu WITH
  W <- 4, Accs <- {<<0, 0>>, <<15, 15>>, <<7, 8>>, <<3, 14>>},
  Memory <- [i \in 0 .. 7 |-> IF i \in {0, 3, 4, 6} THEN 1 ELSE 0]

(* The codes of the NAND controller locate and correct what they can.           *)
CodesHold ==
  \A d \in MCData : /\ Codes!EncodesCode(d)
                    /\ \A damaged \in MCData : Codes!Restores(d, damaged)
                    /\ \A b \in 0 .. 4 : Codes!HammingLocates(d, b)

(* What the machine computes is right: the codes, which the controller shows of *)
(* full blocks only, and the integer instructions of the core.                 *)
ComputesRight ==
  [][/\ unit = "emc" =>
          /\ emc = Chip!ResetEmc => CodesHold
          /\ Chip!Corrects(MCNearestCode) /\ Chip!OnlyFullBlocks
     /\ unit = "core" /\ Cpu!Init => Instructions!InstructionsHold]_vars
=============================================================================
