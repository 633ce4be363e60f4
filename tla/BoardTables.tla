---------------------------- MODULE BoardTables ----------------------------
(***************************************************************************)
(* The tables sysfs_files of the drivers that describe their files to       *)
(* regbit-sysfs.c: name, register, first bit and number of bits.  A table   *)
(* of more than some twenty files is given in two halves; where a board     *)
(* has the table of another, it says so.                                    *)
(***************************************************************************)
EXTENDS RegisterFields

Wedge800ScmFiles1 ==
  <<Ro("version_id", 0, 4, 3), Ro("board_id", 0, 0, 4), Version, Ro("cpld_ver", 1, 0, 7),
    Ro("cpld_minor_ver", 2, 0, 8), Ro("cpld_sub_ver", 3, 0, 8), Ro("come_sta_misc_1", 17, 0, 8),
    Ro("come_sta_misc_2", 18, 0, 8), Ro("come_sta_misc_3", 19, 0, 8),
    Ro("scm_hs_pwr_sta", 33, 3, 1), Ro("scm_hs_alert_sta", 33, 1, 1),
    Ro("lm75_adc_sta", 33, 0, 1), Ro("adc_intr_sta", 36, 2, 1), Ro("lm75_intr_sta", 36, 0, 1),
    Ro("usb_xp5p0_sta", 39, 3, 1), Ro("hs_fault_sta", 39, 2, 1), Ro("hs_alert2_sta", 39, 1, 1),
    Ro("hs_alert1_sta", 39, 0, 1), Ro("xp1p1_oob_pg_sta", 42, 7, 1)>>
Wedge800ScmFiles2 ==
  <<Ro("xp12p0_come_pg_sta", 42, 6, 1), Ro("xp5p0_come_pg_sta", 42, 5, 1),
    Ro("xp3p3_ssd_pg_sta", 42, 4, 1), Ro("xp3p3_i210_pg_sta", 42, 3, 1),
    Ro("xp3p3_scm_pg_sta", 42, 2, 1), Ro("xp3p3_bmc_pg_sta", 42, 1, 1),
    Ro("hs_pg_sta", 42, 0, 1), Ro("i210_lan_wake_sta", 45, 7, 1),
    Ro("bmc_i2c_rdy_sta", 45, 6, 1), Ro("iob_i2c_rdy_sta", 45, 5, 1),
    Ro("oob_phy_sta", 45, 4, 1), Ro("pcie_gen4_los_sta", 45, 1, 1),
    Ro("pcie_gen3_los_sta", 45, 0, 1), Ro("bmc_rdy_sta", 48, 5, 1),
    Ro("smb_t_intr_sta", 48, 4, 1), Ro("smb_b_intr_sta", 48, 3, 1), Ro("mcb_pg_sta", 48, 2, 1),
    Ro("scm_pg_sta", 48, 1, 1), Ro("smb_pg_sta", 48, 0, 1)>>
Wedge800ScmFiles == Wedge800ScmFiles1 \o Wedge800ScmFiles2

MontblancScmFiles1 ==
  <<Ro("board_id", 0, 0, 4), Ro("version_id", 0, 4, 3), Version, Ro("cpld_ver", 1, 0, 7),
    Ro("cpld_minor_ver", 2, 0, 8), Ro("cpld_sub_ver", 3, 0, 8), Ro("come_sta_misc_1", 17, 0, 8),
    Ro("come_sta_misc_2", 18, 0, 8), Ro("come_sta_misc_3", 19, 0, 8),
    Ro("lm75_adc_sta", 33, 0, 1), Ro("scm_hs_alert_sta", 33, 1, 1),
    Ro("scm_hs_pwr_sta", 33, 3, 1), Ro("lm75_1_intr_sta", 36, 0, 1),
    Ro("lm75_2_intr_sta", 36, 1, 1), Ro("adc_intr_sta", 36, 2, 1),
    Ro("hs_alert1_sta", 39, 0, 1), Ro("hs_alert2_sta", 39, 1, 1), Ro("hs_fault_sta", 39, 2, 1),
    Ro("usb_xp5p0_sta", 39, 3, 1), Ro("hs_pg_sta", 42, 0, 1)>>
MontblancScmFiles2 ==
  <<Ro("xp3p3_bmc_pg_sta", 42, 1, 1), Ro("xp3p3_scm_pg_sta", 42, 2, 1),
    Ro("xp3p3_i210_pg_sta", 42, 3, 1), Ro("xp3p3_ssd_pg_sta", 42, 4, 1),
    Ro("xp5p0_come_pg_sta", 42, 5, 1), Ro("xp12p0_come_pg_sta", 42, 6, 1),
    Ro("xp1p1_oob_pg_sta", 42, 7, 1), Ro("pcie_gen3_los_sta", 45, 0, 1),
    Ro("pcie_gen4_los_sta", 45, 1, 1), Ro("mgnt_console_invd_sta", 45, 2, 1),
    Ro("dbg_console_prnt_sta", 45, 3, 1), Ro("oob_phy_sta", 45, 4, 1),
    Ro("iob_i2c_rdy_sta", 45, 5, 1), Ro("bmc_i2c_rdy_sta", 45, 6, 1),
    Ro("i210_lan_wake_sta", 45, 7, 1), Ro("scm_sys_pg_sta", 48, 0, 1),
    Ro("scm_pg_sta", 48, 1, 1), Ro("mcb_pg_sta", 48, 2, 1), Ro("fan_b_sta", 48, 3, 1),
    Ro("fan_t_sta", 48, 4, 1), Ro("bmc_rdy_sta", 48, 5, 1)>>
MontblancScmFiles == MontblancScmFiles1 \o MontblancScmFiles2

Minipack3nScmFiles1 == MontblancScmFiles1
Minipack3nScmFiles2 == MontblancScmFiles2
Minipack3nScmFiles == Minipack3nScmFiles1 \o Minipack3nScmFiles2

IcecubeScmFiles1 ==
  <<Ro("board_id", 0, 0, 4), Ro("version_id", 0, 4, 4), Version, Ro("cpld_ver", 1, 0, 7),
    Ro("cpld_minor_ver", 2, 0, 8), Ro("cpld_sub_ver", 3, 0, 8), Rw("i210_rst", 15, 0, 1),
    Rw("bmc_lpc_rst", 15, 3, 1), Rw("come_sys_warm_rst", 15, 5, 1),
    Rw("come_sys_rst_btn", 15, 6, 1), Rw("rtc_rst", 16, 0, 1), Rw("scm_iob_pcie_rst", 16, 2, 1),
    Rw("e1s_ssd_rst", 16, 3, 1), Ro("come_sta_misc_1", 17, 0, 8),
    Ro("come_sta_misc_2", 18, 0, 8), Ro("come_sta_misc_3", 19, 0, 8),
    Ro("scm_hs_pwr_sta", 33, 3, 1), Ro("scm_come_mod_sta", 33, 5, 1)>>
IcecubeScmFiles2 ==
  <<Ro("scm_bmc_mod_sta", 33, 6, 1), Ro("hs_fault_sta", 39, 2, 1),
    Ro("usb_xp5p0_sta", 39, 3, 1), Ro("hs_pg_sta", 42, 0, 1), Ro("xp3p3_bmc_pg_sta", 42, 1, 1),
    Ro("xp3p3_i210_pg_sta", 42, 3, 1), Ro("xp3p3_ssd_pg_sta", 42, 4, 1),
    Ro("xp5p0_come_pg_sta", 42, 5, 1), Ro("xp12p0_come_pg_sta", 42, 6, 1),
    Ro("pcie_gen4_los_sta", 45, 1, 1), Ro("oob_phy_sta", 45, 4, 1),
    Ro("iob_i2c_rdy_sta", 45, 5, 1), Ro("bmc_i2c_rdy_sta", 45, 6, 1),
    Ro("i210_lan_wake_sta", 45, 7, 1), Ro("smb_pg_sta", 48, 0, 1), Ro("scm_pg_sta", 48, 1, 1),
    Ro("mcb_pg_sta", 48, 2, 1), Ro("bmc_rdy_sta", 48, 5, 1)>>
IcecubeScmFiles == IcecubeScmFiles1 \o IcecubeScmFiles2

IceteaScmFiles1 == IcecubeScmFiles1
IceteaScmFiles2 == IcecubeScmFiles2
IceteaScmFiles == IceteaScmFiles1 \o IceteaScmFiles2

TahansbScmFiles1 == IcecubeScmFiles1
TahansbScmFiles2 == IcecubeScmFiles2
TahansbScmFiles == TahansbScmFiles1 \o TahansbScmFiles2

AnacapaScmFiles1 == IcecubeScmFiles1
AnacapaScmFiles2 == IcecubeScmFiles2
AnacapaScmFiles == AnacapaScmFiles1 \o AnacapaScmFiles2

Leh800bScmFiles1 == IcecubeScmFiles1
Leh800bScmFiles2 == IcecubeScmFiles2
Leh800bScmFiles == Leh800bScmFiles1 \o Leh800bScmFiles2

AnacapaMcbFiles ==
  <<Ro("version_id", 0, 4, 4), Ro("board_id", 0, 0, 4), Version, Ro("cpld_ver", 1, 0, 7),
    Ro("cpld_minor_ver", 2, 0, 8), Ro("cpld_sub_ver", 3, 0, 8), Rw("oob_eeprom_wp", 6, 2, 1),
    Rw("oob_eeprom_sel", 6, 3, 1), Ro("smbl_pg", 10, 1, 1), Ro("hs_48v_pg", 10, 6, 1),
    Ro("rtml_pg", 11, 4, 1), Ro("rtmr_pg", 11, 5, 1), Ro("smbr_pg", 11, 6, 1),
    Ro("smbl_present", 16, 5, 1), Ro("smbr_present", 18, 3, 1)>>

IcecubeMcbFiles ==
  <<Ro("version_id", 0, 4, 4), Ro("board_id", 0, 0, 4), Version, Ro("cpld_ver", 1, 0, 7),
    Ro("cpld_minor_ver", 2, 0, 8), Ro("cpld_sub_ver", 3, 0, 8), Rw("oob_eeprom_wp", 6, 2, 1),
    Rw("oob_eeprom_sel", 6, 3, 1), Ro("smb_pg", 10, 1, 1), Ro("hs_48v_pg", 10, 6, 1),
    Ro("smb_present", 16, 5, 1)>>

IcecubePicFiles ==
  <<Ro("version_id", 0, 4, 4), Ro("board_id", 0, 0, 4), Version, Ro("cpld_ver", 1, 0, 7),
    Ro("cpld_minor_ver", 2, 0, 8), Ro("cpld_sub_ver", 3, 0, 8)>>

Leh800bPdbFiles == IcecubePicFiles

MtiaSmbFiles ==
  <<Ro("version_id", 0, 0, 4), Ro("board_id", 0, 4, 4), Version, Ro("cpld_ver", 1, 0, 7),
    Ro("cpld_minor_ver", 2, 0, 8), Ro("cpld_sub_ver", 3, 0, 8)>>

MontblancSmbFiles1 ==
  <<Ro("board_id", 0, 0, 4), Ro("version_id", 0, 4, 3), Version, Ro("cpld_ver", 1, 0, 8),
    Ro("cpld_minor_ver", 2, 0, 8), Ro("cpld_sub_ver", 3, 0, 8), Rw("th5_pwr_en", 8, 0, 1),
    Ro("xp3p3_pg", 12, 7, 1), Ro("xp3p3_smb_pg", 12, 6, 1), Ro("xp3p3_clk_pg", 12, 5, 1),
    Ro("xp3p3_l_osfp_pg", 12, 4, 1), Ro("xp3p3_r_osfp_pg", 12, 3, 1),
    Ro("xp1p8_clk_pg", 12, 2, 1)>>
MontblancSmbFiles2 ==
  <<Ro("xp1p8_pg", 12, 1, 1), Ro("xp1p2_pg", 12, 0, 1),
    Ro("vr_alert_xp12r0v_scm_int", 22, 5, 1), Ro("vr_alert_xp3r3v_left_int", 22, 4, 1),
    Ro("vr_alert_xp3r3v_right_int", 22, 3, 1), Ro("vr_alert_th5_trvdd_1_int", 22, 2, 1),
    Ro("vr_alert_th5_trvdd_0_int", 22, 1, 1), Ro("vr_alert_th5_vdd_core_int", 22, 0, 1),
    Ro("vr_alert_xp12r0v_scm_sta", 23, 5, 1), Ro("vr_alert_xp3r3v_left_sta", 23, 4, 1),
    Ro("vr_alert_xp3r3v_right_sta", 23, 3, 1), Ro("vr_alert_th5_trvdd_1_sta", 23, 2, 1),
    Ro("vr_alert_th5_trvdd_0_sta", 23, 1, 1), Ro("vr_alert_th5_vdd_core_sta", 23, 0, 1)>>
MontblancSmbFiles == MontblancSmbFiles1 \o MontblancSmbFiles2

JangaSmbFiles ==
  <<Ro("board_ver", 0, 4, 3), Version, Ro("cpld_ver", 1, 0, 7), Ro("cpld_minor_ver", 2, 0, 8),
    Ro("cpld_sub_ver", 3, 0, 8), Rw("j3a_pwr_en", 7, 5, 1), Rw("j3b_pwr_en", 7, 6, 1),
    Ro("j3b_ot_status_changed", 204, 7, 1), Ro("j3b_ot_status", 204, 6, 1),
    Ro("j3a_ot_status_changed", 204, 5, 1), Ro("j3a_ot_status", 204, 4, 1),
    Ro("asic_ot_status_flag", 204, 2, 1), Ro("asic_ot_status", 204, 1, 1),
    Ro("asic_ot_protect_en", 204, 0, 1)>>

TahanSmbFiles ==
  <<Ro("board_ver", 0, 0, 3), Version, Ro("cpld_ver", 1, 0, 8), Ro("cpld_minor_ver", 2, 0, 8),
    Ro("cpld_sub_ver", 3, 0, 8), Rw("th5_pwr_en", 8, 0, 1),
    Ro("asic_ot_status_changed", 188, 2, 1), Ro("asic_ot_status", 188, 1, 1),
    Rw("asic_ot_protect_en", 188, 0, 1)>>

Th6SmbFiles ==
  <<Ro("board_id", 0, 0, 4), Ro("version_id", 0, 4, 4), Version, Ro("cpld_ver", 1, 0, 7),
    Ro("cpld_minor_ver", 2, 0, 8), Ro("cpld_sub_ver", 3, 0, 8), Rw("th6_pwr_en", 8, 0, 1),
    Ro("asic_ot_status_changed", 188, 2, 1), Ro("asic_ot_status", 188, 1, 1)>>

Wedge800bSmbFiles ==
  <<Ro("version_id", 0, 4, 4), Ro("board_id", 0, 0, 4), Version, Ro("cpld_ver", 1, 0, 7),
    Ro("cpld_minor_ver", 2, 0, 8), Ro("cpld_sub_ver", 3, 0, 8), Rw("th5_pwr_en", 8, 0, 1)>>

Wedge800cSmbFiles ==
  <<Ro("version_id", 0, 4, 4), Ro("board_id", 0, 0, 4), Version, Ro("cpld_ver", 1, 0, 7),
    Ro("cpld_minor_ver", 2, 0, 8), Ro("cpld_sub_ver", 3, 0, 8), Rw("g202_pwr_en", 196, 7, 1)>>

FpgaInfoFiles ==
  <<Ro("board_rev", 0, 0, 4), Ro("board_id", 0, 4, 4), Version, Ro("fpga_sub_ver", 0, 8, 8),
    Ro("fpga_ver", 0, 16, 8), Ro("device_id", 0, 24, 8)>>

RtmFiles ==
  <<Rw("rtm_reset", 0, 0, 1)>>

XcvrFiles ==
  <<Rw("xcvr_reset", 0, 0, 1), Rw("xcvr_low_power", 0, 1, 1), Ro("xcvr_present", 0, 4, 1)>>
=============================================================================
