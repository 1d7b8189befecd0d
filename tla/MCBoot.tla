-------------------------------- MODULE MCBoot --------------------------------
(* A node at frame 16 with 8 frames of DMA and 40 of Normal memory. *)
EXTENDS Boot

Low(start, frames)  == Arg("mem", start * PageSize, frames * PageSize)
High(start, frames) == Arg("high", start * PageSize, frames * PageSize)

\* No arguments of the user; a bank of no size; one inside the generated one; high memory
\* of his own; banks above, with high memory behind them, in order and out of order.
MCUserArgs ==
    {<<>>, <<Low(20, 0)>>, <<Low(20, 4)>>, <<High(64, 8)>>,
     <<Low(64, 4), High(68, 2)>>, <<Low(64, 3), High(67, 5)>>,
     <<Low(68, 2), Low(80, 4), High(84, 2)>>,
     <<Low(80, 4), Low(68, 2), High(84, 1)>>,
     <<Low(68, 4), Low(88, 4), Low(80, 4), High(92, 1)>>}

\* None; one in Normal memory; one beyond it; one where the bitmap goes.
MCInitrds == {Bank(0, 0), Bank(244, 9), Bank(254, 9), Bank(80, 4)}

MCPgdir == Bank(64, 4)
MCKernel == Bank(68, 10)
MCRatio == <<8, 4, 1>>
===============================================================================
