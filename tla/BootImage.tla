----------------------------- MODULE BootImage ------------------------------
(***************************************************************************)
(* The boot ROM built into the emulator: the table bootDMG.                *)
(***************************************************************************)
EXTENDS Integers, Sequences

Bytes256 ==
  <<
      \h31, \hFE, \hFF, \hAF, \h21, \hFF, \h9F, \h32, \hCB, \h7C, \h20, \hFB, \h21, \h26, \hFF, \h0E,
      \h11, \h3E, \h80, \h32, \hE2, \h0C, \h3E, \hF3, \hE2, \h32, \h3E, \h77, \h77, \h3E, \hFC, \hE0,
      \h47, \h11, \h04, \h01, \h21, \h10, \h80, \h1A, \hCD, \h95, \h00, \hCD, \h96, \h00, \h13, \h7B,
      \hFE, \h34, \h20, \hF3, \h11, \hD8, \h00, \h06, \h08, \h1A, \h13, \h22, \h23, \h05, \h20, \hF9,
      \h3E, \h19, \hEA, \h10, \h99, \h21, \h2F, \h99, \h0E, \h0C, \h3D, \h28, \h08, \h32, \h0D, \h20,
      \hF9, \h2E, \h0F, \h18, \hF3, \h67, \h3E, \h64, \h57, \hE0, \h42, \h3E, \h91, \hE0, \h40, \h04,
      \h1E, \h02, \h0E, \h0C, \hF0, \h44, \hFE, \h90, \h20, \hFA, \h0D, \h20, \hF7, \h1D, \h20, \hF2,
      \h0E, \h13, \h24, \h7C, \h1E, \h83, \hFE, \h62, \h28, \h06, \h1E, \hC1, \hFE, \h64, \h20, \h06,
      \h7B, \hE2, \h0C, \h3E, \h87, \hE2, \hF0, \h42, \h90, \hE0, \h42, \h15, \h20, \hD2, \h05, \h20,
      \h4F, \h16, \h20, \h18, \hCB, \h4F, \h06, \h04, \hC5, \hCB, \h11, \h17, \hC1, \hCB, \h11, \h17,
      \h05, \h20, \hF5, \h22, \h23, \h22, \h23, \hC9, \hCE, \hED, \h66, \h66, \hCC, \h0D, \h00, \h0B,
      \h03, \h73, \h00, \h83, \h00, \h0C, \h00, \h0D, \h00, \h08, \h11, \h1F, \h88, \h89, \h00, \h0E,
      \hDC, \hCC, \h6E, \hE6, \hDD, \hDD, \hD9, \h99, \hBB, \hBB, \h67, \h63, \h6E, \h0E, \hEC, \hCC,
      \hDD, \hDC, \h99, \h9F, \hBB, \hB9, \h33, \h3E, \h3C, \h42, \hB9, \hA5, \hB9, \hA5, \h42, \h3C,
      \h21, \h04, \h01, \h11, \hA8, \h00, \h1A, \h13, \hBE, \h00, \h00, \h23, \h7D, \hFE, \h34, \h20,
      \hF5, \h06, \h19, \h78, \h86, \h23, \h05, \h20, \hFB, \h86, \h00, \h00, \h3E, \h01, \hE0, \h50 >>

bootDMG == [addr \in 0..\hFF |-> Bytes256[addr + 1]]
=============================================================================
